---- MODULE Spec2Model ----
(***************************************************************************)
(* A model of the HVSC base library of VICE (src/vice/src/hvsc/base.c):    *)
(* the timestamp parser hvsc_parse_simple_timestamp, the buffered text     *)
(* reader hvsc_text_file_open / _read / _close, hvsc_read_file, the HVSC   *)
(* path functions, hvsc_get_field_type and hvsc_md5_digest; and of three   *)
(* other pieces of VICE: the VIC-20 export list (src/unnamed/part_000),    *)
(* the VSID action handlers (src/vice/src/arch/gtk3/actions-vsid.c) and    *)
(* the video resource setters (src/unnamed/part_001).  Each part has its   *)
(* own specification; the variables of the other parts stay as they start. *)
(*                                                                         *)
(* Characters are one-character strings; a C string is a sequence of them, *)
(* with the terminating NUL read at index Len + 1.  A char pointer into a  *)
(* string is the 1-based index of the character it points at.              *)
(***************************************************************************)
EXTENDS Integers, Sequences, FiniteSets, TLC

VARIABLES
    hvsc_errno,     \* int hvsc_errno: the library's last error code
    ts_input,       \* the string handed to hvsc_parse_simple_timestamp
    ts_pc,          \* "call": before the call, "done": after it returned
    ts_ret,         \* the value hvsc_parse_simple_timestamp returned
    endptr,         \* the caller's char *, as the callee left it
    endptr_written, \* whether the callee stored into *endptr
    errno_before,   \* history: hvsc_errno as the last call found it
    file,           \* the bytes of the file the text reader is opened on
    faultAt,        \* the fgetc on byte faultAt fails with a stream error (0: none)
    stream,         \* the FILE behind handle.fp: [pos, eof] (reset once closed)
    handle,         \* the caller's hvsc_text_file_t
    heap,           \* live heap blocks: block id -> its bytes
    frees,          \* block or stream id -> how often it was released
    nextId,         \* the next fresh block or stream id
    tf_op,          \* the text reader call that returned last
    tf_ok,          \* its result: open returned true, read returned non-NULL
                    \* (close returns nothing: the handle held something)
    tf_line,        \* the string the last read returned
    tf_reads,       \* reads of the open handle since its open
    tf_opens,       \* opens so far
    tf_oob,         \* a store of the last read fell outside its buffer
    rf_file,        \* the bytes of the file hvsc_read_file is called on
    rf_faultAt,     \* the fread reaching byte rf_faultAt fails (0: none)
    rf_pc,          \* "call": before hvsc_read_file, "done": after it returned
    rf_ret,         \* the value hvsc_read_file returned
    rf_dest,        \* the caller's unsigned char *, as the callee left it
    rf_heap,        \* live blocks of hvsc_read_file: block id -> its bytes
    rf_frees,       \* how many blocks hvsc_read_file released
    rf_fd,          \* the FILE of hvsc_read_file: "none", "open", "closed"
    rf_oob,         \* an fread was given room beyond the end of the buffer
    hvsc_root_path, \* char *hvsc_root_path: a block of p_heap or NULL
    hvsc_sldb_path, \* char *hvsc_sldb_path
    hvsc_stil_path, \* char *hvsc_stil_path
    hvsc_bugs_path, \* char *hvsc_bugs_path
    p_heap,         \* live path strings: block id -> the string (without NUL)
    p_sets,         \* calls of hvsc_set_paths so far
    p_op,           \* the path call that returned last
    p_arg,          \* history: the string it was given
    p_in,           \* the caller's string as the call left it
    p_res,          \* the string the caller was returned and still holds
    p_bool,         \* the value hvsc_path_is_hvsc returned
    p_trip,         \* the strings of the last join / strip / join round
    ft_line,        \* the line handed to hvsc_get_field_type
    ft_pc,          \* "call": before hvsc_get_field_type, "done": after it
    ft_ret,         \* the value hvsc_get_field_type returned
    md_hash,        \* the 16 bytes md5File computes for the file
    md_pc,          \* "call": before hvsc_md5_digest, "done": after it returned
    md_ret,         \* the value hvsc_md5_digest returned
    md_digest,      \* the caller's digest buffer
    md_fp,          \* the FILE of hvsc_md5_digest: "none", "open", "closed"
    ex_nodes,       \* the export list: address -> export_list_t, the head among them
    ex_op,          \* the export call that returned last
    ex_arg,         \* the device it was given
    ex_ret,         \* the value it returned
    vs_tune_current,\* vsid_state_t.tune_current
    vs_tune_count,  \* vsid_state_t.tune_count
    vs_tune_default,\* vsid_state_t.tune_default
    vs_psid_filename,\* vsid_state_t.psid_filename: NULL or a string's address
    vs_op,          \* the VSID handler that ran last
    vs_before,      \* tune_current when that handler was called
    vs_trace,       \* what that handler did with the lock and the fields, in order
    vs_played,      \* the tune it handed to machine_play_psid
    vr_delayloop_emulation,\* video_resources.delayloop_emulation
    vr_ext_palette, \* video_resources.ext_palette
    vr_op,          \* the resource setter that ran last
    vr_arg,         \* the value it was given
    vr_old,         \* delayloop_emulation when it was called
    vr_seen,        \* delayloop_emulation as video_color_update_palette() saw it
    vr_result,      \* what video_color_update_palette() returned to it
    vr_ret          \* what the setter returned

tsVars == <<ts_input, ts_pc, ts_ret, endptr, endptr_written>>

tfVars ==
    <<file, faultAt, stream, handle, heap, frees, nextId,
      tf_op, tf_ok, tf_line, tf_reads, tf_opens, tf_oob>>

rfVars ==
    <<rf_file, rf_faultAt, rf_pc, rf_ret, rf_dest, rf_heap, rf_frees, rf_fd,
      rf_oob>>

pathGlobals ==
    <<hvsc_root_path, hvsc_sldb_path, hvsc_stil_path, hvsc_bugs_path>>

pVars ==
    <<pathGlobals, p_heap, p_sets, p_op, p_arg, p_in, p_res, p_bool, p_trip>>

ftVars == <<ft_line, ft_pc, ft_ret>>

mdVars == <<md_hash, md_pc, md_ret, md_digest, md_fp>>

exVars == <<ex_nodes, ex_op, ex_arg, ex_ret>>

vsVars == <<vs_tune_current, vs_tune_count, vs_tune_default, vs_psid_filename, vs_op, vs_before, vs_trace, vs_played>>

vrVars == <<vr_delayloop_emulation, vr_ext_palette, vr_op, vr_arg, vr_old, vr_seen, vr_result, vr_ret>>

vars ==
    <<hvsc_errno, errno_before, tsVars, tfVars, rfVars, pVars, ftVars, mdVars, exVars, vsVars,
      vrVars>>

\* what the calls of one part of the library leave alone: the other parts
exceptTs ==
    <<tfVars, rfVars, pVars, ftVars, mdVars, exVars, vsVars, vrVars>>
exceptTf ==
    <<tsVars, rfVars, pVars, ftVars, mdVars, exVars, vsVars, vrVars>>
exceptRf ==
    <<tsVars, tfVars, pVars, ftVars, mdVars, exVars, vsVars, vrVars>>
exceptP ==
    <<tsVars, tfVars, rfVars, ftVars, mdVars, exVars, vsVars, vrVars>>
exceptFt ==
    <<tsVars, tfVars, rfVars, pVars, mdVars, exVars, vsVars, vrVars>>
exceptMd ==
    <<tsVars, tfVars, rfVars, pVars, ftVars, exVars, vsVars, vrVars>>
exceptEx ==
    <<tsVars, tfVars, rfVars, pVars, ftVars, mdVars, vsVars, vrVars>>
exceptVs ==
    <<tsVars, tfVars, rfVars, pVars, ftVars, mdVars, exVars, vrVars>>
exceptVr ==
    <<tsVars, tfVars, rfVars, pVars, ftVars, mdVars, exVars, vsVars>>

(***************************************************************************)
(* Bounds of the model.                                                    *)
(***************************************************************************)
\* longest timestamp string drawn as an input
MaxTsLen == 6

\* longest file the text reader is opened on
MaxFileLen == 5

\* how often the text reader's handle is opened
MaxOpens == 1

\* how many different devices register at the expansion port
MaxDevices == 2

\* longest export list
MaxExports == 3

\* most subtunes in a PSID file
MaxTunes == 2

\* largest value a video resource is set to
MaxResource == 3

\* longest text drawn after a field identifier
MaxSuffixLen == 2

\* longest HVSC root handed to hvsc_set_paths
MaxRootLen == 1

\* longest path handed to hvsc_path_strip_root and hvsc_path_is_hvsc, and
\* longest relative path joined to the root
MaxPathLen == 3

\* how often hvsc_set_paths is called
MaxSets == 2

\* longest file hvsc_read_file is called on
MaxBlobLen == 5

\* READFILE_BLOCK_SIZE, the chunk hvsc_read_file reads and the initial size of
\* its buffer, scaled down from the 65536 of base.c:49 so that files reach
\* exact multiples of it and the buffer doubles more than once
READFILE_BLOCK_SIZE == 2

\* READFILE_LINE_SIZE, the initial capacity of the line buffers, scaled down
\* from the 1024 of base.c:54 so that lines reach and pass it several times
READFILE_LINE_SIZE == 2

(***************************************************************************)
(* Error codes (base.h; their order is that of hvsc_err_messages).         *)
(***************************************************************************)
HVSC_ERR_OK == 0
HVSC_ERR_IO == 1
HVSC_ERR_TIMESTAMP == 4

NUL == "NUL"
LF == "LF"
CR == "CR"
EOF == "EOF"

\* a byte nothing has stored yet (fresh from malloc or realloc)
Indet == "??"

\* the null pointer; block and stream ids start at 1
NULL == 0

(***************************************************************************)
(* hvsc_parse_simple_timestamp                                             *)
(***************************************************************************)
Digits == {"0", "1", "2", "3", "4", "5", "6", "7", "8", "9"}

\* the characters timestamps are drawn from: digits that reach both sides of
\* the 59 limit and the two separators (each also stands where it is not a
\* separator, and the terminating NUL is one more non-timestamp character)
TsAlphabet == {"0", "5", "6", ":", "."}

\* isdigit((unsigned char)c)
IsDigit(c) == c \in Digits

\* c - '0'
DigitVal(c) ==
    CASE c = "0" -> 0 [] c = "1" -> 1 [] c = "2" -> 2 [] c = "3" -> 3
      [] c = "4" -> 4 [] c = "5" -> 5 [] c = "6" -> 6 [] c = "7" -> 7
      [] c = "8" -> 8 [] c = "9" -> 9

\* *t for the pointer t into the NUL-terminated string s
CharAt(s, t) == IF t >= 1 /\ t <= Len(s) THEN s[t] ELSE NUL

\* v = v * 10 + *t - '0'
Accum_NoShift(v, c) == v + DigitVal(c)
Accum(v, c) == v * 10 + DigitVal(c)

\* while (isdigit(*t)) { m = m * 10 + *t - '0'; t++; }
RECURSIVE ScanMinutes(_, _, _)
ScanMinutes(s, t, m) ==
    IF IsDigit(CharAt(s, t))
    THEN ScanMinutes(s, t + 1, Accum(m, CharAt(s, t)))
    ELSE [t |-> t, m |-> m]

\* if (s > 59)
SecondsTooLarge_Off(s) == s > 60
SecondsTooLarge(s) == s > 59

\* while (isdigit(*t)) { s = s * 10 + *t - '0'; t++; if (s > 59) return -1; }
RECURSIVE ScanSeconds(_, _, _)
ScanSeconds(s, t, sec) ==
    IF IsDigit(CharAt(s, t))
    THEN LET sec2 == Accum(sec, CharAt(s, t))
         IN  IF SecondsTooLarge(sec2)
             THEN [t |-> t + 1, s |-> sec2, fail |-> TRUE]
             ELSE ScanSeconds(s, t + 1, sec2)
    ELSE [t |-> t, s |-> sec, fail |-> FALSE]

\* fd < 3: the fraction may take one more digit
FractionOpen_Always(fd) == TRUE
FractionOpen(fd) == fd < 3

\* while (isdigit(*t) && fd < 3) { fd++; f = f * 10 + *t - '0'; t++; }
RECURSIVE ScanFraction(_, _, _, _)
ScanFraction(s, t, f, fd) ==
    IF IsDigit(CharAt(s, t)) /\ FractionOpen(fd)
    THEN ScanFraction(s, t + 1, Accum(f, CharAt(s, t)), fd + 1)
    ELSE [t |-> t, f |-> f, fd |-> fd]

\* while (fd++ < 3) { f *= 10; }
PadFraction_None(f, fd) == f
RECURSIVE PadFraction(_, _)
PadFraction(f, fd) == IF fd < 3 THEN PadFraction(f * 10, fd + 1) ELSE f

\* if (fd == 0): a '.' with no digit after it
DanglingDot_Never(fd) == FALSE
DanglingDot(fd) == fd = 0

\* if (*t != ':')
MissingColon_Never(c) == FALSE
MissingColon(c) == c # ":"

\* What one call does: the value returned, whether *endptr was stored and
\* with what, and whether hvsc_errno was set to HVSC_ERR_TIMESTAMP.
TsFail(wrote, t) ==
    [ret |-> -1, wrote |-> wrote, endptr |-> t, err |-> TRUE]

TsOk(t, m, s, f) ==
    [ret |-> (m * 60 + s) * 1000 + f, wrote |-> TRUE, endptr |-> t,
     err |-> FALSE]

hvsc_parse_simple_timestamp(str) ==
    LET mins == ScanMinutes(str, 1, 0)
    IN  IF MissingColon(CharAt(str, mins.t))
        THEN TsFail(TRUE, mins.t)
        ELSE
        LET secs == ScanSeconds(str, mins.t + 1, 0)
        IN  IF secs.fail
            THEN TsFail(FALSE, secs.t)
            ELSE
            IF CharAt(str, secs.t) = "."
            THEN LET fr == ScanFraction(str, secs.t + 1, 0, 0)
                 IN  IF DanglingDot(fr.fd)
                     THEN TsFail(FALSE, fr.t)
                     ELSE TsOk(fr.t, mins.m, secs.s, PadFraction(fr.f, fr.fd))
            ELSE TsOk(secs.t, mins.m, secs.s, 0)

\* every string of at most n characters over the alphabet A
RECURSIVE StringsUpTo(_, _)
StringsUpTo(A, n) ==
    IF n = 0 THEN {<<>>}
    ELSE LET shorter == StringsUpTo(A, n - 1)
         IN  shorter \cup {Append(s, c) : s \in {x \in shorter : Len(x) = n - 1}, c \in A}

\* the largest minutes count whose result fits the narrowest long the
\* emulator is built with: (LONG_MAX - 59999) / 60000 for a 32-bit long
MaxMinutes == (2147483647 - 59999) \div 60000

\* The inputs: every string over the alphabet whose minutes keep
\* (m * 60 + s) * 1000 + f within a long; beyond that the C arithmetic is a
\* signed overflow, which no claim about the parser covers.
TsInputs ==
    {s \in StringsUpTo(TsAlphabet, MaxTsLen) :
        ScanMinutes(s, 1, 0).m <= MaxMinutes}

(***************************************************************************)
(* The text reader: hvsc_text_file_init_handle, _open, _read, _close.      *)
(*                                                                         *)
(* A heap block is identified by an id that is never handed out twice, so  *)
(* a second release of the same block is visible in frees.  hvsc_realloc   *)
(* keeps the id of the block it resizes: the code stores its result over   *)
(* the pointer it passed in and keeps no other copy of that pointer.       *)
(***************************************************************************)
TfAlphabet == {"a", CR, LF}

TfFiles == StringsUpTo(TfAlphabet, MaxFileLen)

\* reads of one open handle that the model follows: every line of the
\* longest file, and the calls after the end of the file
MaxReads == MaxFileLen + 3

\* the path the reader is opened on, as a C string
PathString == <<"p">>

\* hvsc_text_file_init_handle
InitHandle_Stale(h) ==
    [h EXCEPT !.fp = NULL, !.path = NULL, !.buffer = NULL, !.prevbuf = NULL]
InitHandle(h) ==
    [fp |-> NULL, path |-> NULL, lineno |-> 0, linelen |-> 0,
     buffer |-> NULL, prevbuf |-> NULL, buflen |-> 0]

\* hvsc_malloc(n): n bytes nothing has stored yet
Malloc(n) == [k \in 1..n |-> Indet]

\* hvsc_realloc(mem, n): the old bytes, then bytes nothing has stored yet
Realloc_Lossy(mem, n) == [k \in 1..n |-> Indet]
Realloc(mem, n) == [k \in 1..n |-> IF k <= Len(mem) THEN mem[k] ELSE Indet]

\* memset(mem, 0, n)
Memset0(mem, n) == [k \in 1..Len(mem) |-> IF k <= n THEN NUL ELSE mem[k]]

\* the index i (from 0) lies inside the block
InBounds(mem, i) == i >= 0 /\ i < Len(mem)

\* mem[i] = c; a store outside the block is left out here and recorded by
\* the caller
Store(mem, i, c) == IF InBounds(mem, i) THEN [mem EXCEPT ![i + 1] = c] ELSE mem

\* mem[i]
Load(mem, i) == IF InBounds(mem, i) THEN mem[i + 1] ELSE Indet

\* memcpy(dst, src, n)
Memcpy_Nothing(dst, src, n) == dst
Memcpy(dst, src, n) ==
    [k \in 1..Len(dst) |-> IF k <= n THEN Load(src, k - 1) ELSE dst[k]]

\* the C string a char pointer to the block's first byte denotes
RECURSIVE CStringFrom(_, _)
CStringFrom(mem, k) ==
    IF k > Len(mem) \/ mem[k] = NUL THEN <<>>
    ELSE <<mem[k]>> \o CStringFrom(mem, k + 1)

CString(mem) == CStringFrom(mem, 1)

\* hvsc_free(p) and fclose(p): the block leaves the heap, the release is counted
Released(fr, p) ==
    [k \in DOMAIN fr \cup {p} |-> IF k = p
                                 THEN (IF p \in DOMAIN fr THEN fr[p] + 1 ELSE 1)
                                 ELSE fr[k]]

Unmapped(hp, p) == [k \in DOMAIN hp \ {p} |-> hp[k]]

\* ch = fgetc(handle->fp) on a stream at st.pos: a stream error at the
\* faulty byte, EOF (setting the end-of-file indicator) past the last byte,
\* else the next byte
Fgetc(pos, eof) ==
    IF faultAt = pos + 1 THEN [ch |-> EOF, pos |-> pos, eof |-> eof]
    ELSE IF pos >= Len(file) THEN [ch |-> EOF, pos |-> pos, eof |-> TRUE]
    ELSE [ch |-> file[pos + 1], pos |-> pos + 1, eof |-> eof]

\* if (i == handle->buflen - 1)
NeedsGrow_Late(i, buflen) == i = buflen
NeedsGrow_Never(i, buflen) == FALSE
NeedsGrow(i, buflen) == i = buflen - 1

\* handle->buflen *= 2; both buffers are reallocated to the new size
Grow_BufferOnly(st) ==
    [st EXCEPT !.buflen = 2 * st.buflen,
               !.buf = Realloc(st.buf, 2 * st.buflen)]
Grow(st) ==
    [st EXCEPT !.buflen = 2 * st.buflen,
               !.buf = Realloc(st.buf, 2 * st.buflen),
               !.prev = Realloc(st.prev, 2 * st.buflen)]

\* if (i > 0 && handle->buffer[i - 1] == '\r')
HasWindowsCR_Never(buf, i) == FALSE
HasWindowsCR(buf, i) == i > 0 /\ Load(buf, i - 1) = CR

\* the '\n' branch: terminate, strip one '\r', count the line
EndOfLine_NoCount(st) ==
    LET j == IF HasWindowsCR(st.buf, st.i) THEN st.i - 1 ELSE st.i
    IN  [st EXCEPT !.buf = Store(Store(st.buf, st.i, NUL), j, NUL),
                   !.oob = st.oob \/ ~InBounds(st.buf, st.i),
                   !.i = j,
                   !.linelen = j,
                   !.kind = "line"]
EndOfLine(st) ==
    LET j == IF HasWindowsCR(st.buf, st.i) THEN st.i - 1 ELSE st.i
    IN  [st EXCEPT !.buf = Store(Store(st.buf, st.i, NUL), j, NUL),
                   !.oob = st.oob \/ ~InBounds(st.buf, st.i),
                   !.i = j,
                   !.lineno = st.lineno + 1,
                   !.linelen = j,
                   !.kind = "line"]

\* the feof() branch: terminate what was accumulated and return it, or NULL
\* when nothing was
EndOfFile_Counts(st) ==
    [st EXCEPT !.buf = Store(st.buf, st.i, NUL),
               !.oob = st.oob \/ ~InBounds(st.buf, st.i),
               !.eof = TRUE,
               !.lineno = st.lineno + 1,
               !.kind = IF st.i = 0 THEN "eof" ELSE "partial"]
EndOfFile(st) ==
    [st EXCEPT !.buf = Store(st.buf, st.i, NUL),
               !.oob = st.oob \/ ~InBounds(st.buf, st.i),
               !.eof = TRUE,
               !.kind = IF st.i = 0 THEN "eof" ELSE "partial"]

\* handle->buffer[i++] = (char)ch
StoreChar(st, ch, pos) ==
    [st EXCEPT !.buf = Store(st.buf, st.i, ch),
               !.oob = st.oob \/ ~InBounds(st.buf, st.i),
               !.i = st.i + 1,
               !.pos = pos]

\* the while (true) loop of hvsc_text_file_read, from one test of the
\* buffer size to the return
RECURSIVE ReadLoop(_)
ReadLoop(st0) ==
    LET st == IF NeedsGrow(st0.i, st0.buflen) THEN Grow(st0) ELSE st0
        g == Fgetc(st.pos, st.eof)
    IN  IF g.ch = EOF
        THEN IF g.eof THEN EndOfFile(st) ELSE [st EXCEPT !.kind = "error"]
        ELSE IF g.ch = LF
             THEN EndOfLine([st EXCEPT !.pos = g.pos])
             ELSE ReadLoop(StoreChar(st, g.ch, g.pos))

\* hvsc_text_file_read(h): the memcpy into the previous-line buffer, then
\* the loop.  kind tells how the call returned: "line" and "partial" return
\* handle->buffer, "eof" and "error" return NULL, "error" after setting
\* hvsc_errno.
hvsc_text_file_read(h, hp, strm) ==
    ReadLoop([i |-> 0, buflen |-> h.buflen,
              buf |-> hp[h.buffer],
              prev |-> Memcpy(hp[h.prevbuf], hp[h.buffer], h.buflen),
              pos |-> strm.pos, eof |-> strm.eof,
              lineno |-> h.lineno, linelen |-> h.linelen,
              oob |-> FALSE, kind |-> "loop"])

\* hvsc_errno after a read that returned the way kind says: only the branch
\* for an EOF from fgetc without feof() stores HVSC_ERR_IO
ReadErrno_AnyEOF(kind, e) == IF kind \in {"error", "eof"} THEN HVSC_ERR_IO ELSE e
ReadErrno(kind, e) == IF kind = "error" THEN HVSC_ERR_IO ELSE e

\* handle->p = NULL after the release of p
ClearFreed_Keep(p) == p
ClearFreed(p) == NULL

\* handle->fp = NULL after fclose(handle->fp)
ClearClosed_Keep(p) == p
ClearClosed(p) == NULL

\* the text reader before any call: a handle the caller has initialised, a
\* file on disk, possibly with a byte the device fails to deliver
TfIdle ==
    /\ file = <<>>
    /\ faultAt = 0
    /\ stream = [pos |-> 0, eof |-> FALSE]
    /\ handle = InitHandle(<<>>)
    /\ heap = <<>>
    /\ frees = <<>>
    /\ nextId = 1
    /\ tf_op = "init"
    /\ tf_ok = FALSE
    /\ tf_line = <<>>
    /\ tf_reads = 0
    /\ tf_opens = 0
    /\ tf_oob = FALSE

TsIdle ==
    /\ ts_input = <<>>
    /\ ts_pc = "idle"
    /\ ts_ret = 0
    /\ endptr = 0
    /\ endptr_written = FALSE

RfIdle ==
    /\ rf_file = <<>>
    /\ rf_faultAt = 0
    /\ rf_pc = "idle"
    /\ rf_ret = 0
    /\ rf_dest = Indet
    /\ rf_heap = <<>>
    /\ rf_frees = 0
    /\ rf_fd = "none"
    /\ rf_oob = FALSE

\* no path call made yet: the four globals as the loader zeroes them
PIdle ==
    /\ hvsc_root_path = NULL
    /\ hvsc_sldb_path = NULL
    /\ hvsc_stil_path = NULL
    /\ hvsc_bugs_path = NULL
    /\ p_heap = <<>>
    /\ p_sets = 0
    /\ p_op = "idle"
    /\ p_arg = <<>>
    /\ p_in = <<>>
    /\ p_res = NULL
    /\ p_bool = FALSE
    /\ p_trip = <<>>

FtIdle ==
    /\ ft_line = <<>>
    /\ ft_pc = "idle"
    /\ ft_ret = 0

\* no digest asked for yet
MdIdle ==
    /\ md_hash = <<>>
    /\ md_pc = "idle"
    /\ md_ret = FALSE
    /\ md_digest = <<>>
    /\ md_fp = "none"

\* no export list in this program
ExIdle ==
    /\ ex_nodes = <<>>
    /\ ex_op = "idle"
    /\ ex_arg = NULL
    /\ ex_ret = 0

\* no VSID user interface in this program
VsIdle ==
    /\ vs_tune_current = 0
    /\ vs_tune_count = 0
    /\ vs_tune_default = 0
    /\ vs_psid_filename = NULL
    /\ vs_op = "idle"
    /\ vs_before = 0
    /\ vs_trace = <<>>
    /\ vs_played = 0

\* no video resources in this program
VrIdle ==
    /\ vr_delayloop_emulation = 0
    /\ vr_ext_palette = 0
    /\ vr_op = "idle"
    /\ vr_arg = 0
    /\ vr_old = 0
    /\ vr_seen = 0
    /\ vr_result = 0
    /\ vr_ret = 0

\* every part of the library but one before any call of it
IdleExceptTs == TfIdle /\ RfIdle /\ PIdle /\ FtIdle /\ MdIdle /\ ExIdle /\ VsIdle /\ VrIdle
IdleExceptTf == TsIdle /\ RfIdle /\ PIdle /\ FtIdle /\ MdIdle /\ ExIdle /\ VsIdle /\ VrIdle
IdleExceptRf == TsIdle /\ TfIdle /\ PIdle /\ FtIdle /\ MdIdle /\ ExIdle /\ VsIdle /\ VrIdle
IdleExceptP == TsIdle /\ TfIdle /\ RfIdle /\ FtIdle /\ MdIdle /\ ExIdle /\ VsIdle /\ VrIdle
IdleExceptFt == TsIdle /\ TfIdle /\ RfIdle /\ PIdle /\ MdIdle /\ ExIdle /\ VsIdle /\ VrIdle
IdleExceptMd == TsIdle /\ TfIdle /\ RfIdle /\ PIdle /\ FtIdle /\ ExIdle /\ VsIdle /\ VrIdle
IdleExceptEx == TsIdle /\ TfIdle /\ RfIdle /\ PIdle /\ FtIdle /\ MdIdle /\ VsIdle /\ VrIdle
IdleExceptVs == TsIdle /\ TfIdle /\ RfIdle /\ PIdle /\ FtIdle /\ MdIdle /\ ExIdle /\ VrIdle
IdleExceptVr == TsIdle /\ TfIdle /\ RfIdle /\ PIdle /\ FtIdle /\ MdIdle /\ ExIdle /\ VsIdle

\* a caller about to parse a string; hvsc_errno holds whatever earlier
\* library calls left in it
InitTimestamp ==
    /\ ts_input \in TsInputs
    /\ ts_pc = "call"
    /\ ts_ret = 0
    /\ endptr = 0
    /\ endptr_written = FALSE
    /\ hvsc_errno \in {HVSC_ERR_OK, HVSC_ERR_IO}
    /\ errno_before = hvsc_errno
    /\ IdleExceptTs

\* the call  ts_ret = hvsc_parse_simple_timestamp(ts_input, &endptr)
ParseTimestamp ==
    /\ ts_pc = "call"
    /\ LET r == hvsc_parse_simple_timestamp(ts_input)
       IN  /\ ts_ret' = r.ret
           /\ endptr_written' = r.wrote
           /\ endptr' = IF r.wrote THEN r.endptr ELSE endptr
           /\ hvsc_errno' = IF r.err THEN HVSC_ERR_TIMESTAMP ELSE hvsc_errno
    /\ ts_pc' = "done"
    /\ errno_before' = hvsc_errno
    /\ UNCHANGED <<ts_input, exceptTs>>

NextTimestamp == ParseTimestamp

SpecTimestamp == InitTimestamp /\ [][NextTimestamp]_vars

(***************************************************************************)
(* The text reader's calls.                                                *)
(***************************************************************************)
\* hvsc_free(p) / fclose(p) on the heap and the release counts
Free(res, p) == [heap |-> Unmapped(res.heap, p), frees |-> Released(res.frees, p)]

\* hvsc_text_file_close(h): each of path, buffer, prevbuf and fp is released
\* when it is not NULL, and then set to NULL
hvsc_text_file_close(h, hp, fr) ==
    LET r0 == [heap |-> hp, frees |-> fr]
        r1 == IF h.path # NULL THEN Free(r0, h.path) ELSE r0
        r2 == IF h.buffer # NULL THEN Free(r1, h.buffer) ELSE r1
        r3 == IF h.prevbuf # NULL THEN Free(r2, h.prevbuf) ELSE r2
        r4 == IF h.fp # NULL THEN Free(r3, h.fp) ELSE r3
    IN  [h |-> [h EXCEPT
                  !.path = IF h.path # NULL THEN ClearFreed(h.path) ELSE h.path,
                  !.buffer = IF h.buffer # NULL THEN ClearFreed(h.buffer) ELSE h.buffer,
                  !.prevbuf = IF h.prevbuf # NULL THEN ClearFreed(h.prevbuf) ELSE h.prevbuf,
                  !.fp = IF h.fp # NULL THEN ClearClosed(h.fp) ELSE h.fp],
         heap |-> r4.heap,
         frees |-> r4.frees]

\* hvsc_text_file_open(path, h) when fopen() succeeds: the stream, the copy
\* of the path and the two line buffers get the ids id .. id + 3
OpenedHandle(h, id) ==
    [InitHandle(h) EXCEPT !.fp = id, !.path = id + 1, !.lineno = 0,
                          !.buffer = id + 2, !.prevbuf = id + 3,
                          !.buflen = READFILE_LINE_SIZE]

OpenedHeap(hp, id) ==
    [k \in DOMAIN hp \cup id..(id + 3) |->
        IF k = id THEN <<>>
        ELSE IF k = id + 1 THEN Append(PathString, NUL)
        ELSE IF k \in {id + 2, id + 3} THEN Memset0(Malloc(READFILE_LINE_SIZE), 1)
        ELSE hp[k]]

\* a text reader about to be used on some file; hvsc_errno holds whatever
\* earlier library calls left in it
InitTextFile ==
    /\ file \in TfFiles
    /\ faultAt \in 0..(Len(file) + 1)
    /\ stream = [pos |-> 0, eof |-> FALSE]
    /\ handle = InitHandle(<<>>)
    /\ heap = <<>>
    /\ frees = <<>>
    /\ nextId = 1
    /\ tf_op = "init"
    /\ tf_ok = FALSE
    /\ tf_line = <<>>
    /\ tf_reads = 0
    /\ tf_opens = 0
    /\ tf_oob = FALSE
    /\ hvsc_errno \in {HVSC_ERR_OK, HVSC_ERR_IO}
    /\ errno_before = hvsc_errno
    /\ IdleExceptTf

\* hvsc_text_file_open(path, &handle) on a handle that holds no stream
\* (fresh, closed, or left by a failed open); fopen() succeeds or fails
Open ==
    /\ handle.fp = NULL
    /\ tf_opens < MaxOpens
    /\ \E fopen_ok \in BOOLEAN :
        IF fopen_ok
        THEN /\ handle' = OpenedHandle(handle, nextId)
             /\ heap' = OpenedHeap(heap, nextId)
             /\ nextId' = nextId + 4
             /\ stream' = [pos |-> 0, eof |-> FALSE]
             /\ hvsc_errno' = hvsc_errno
             /\ tf_ok' = TRUE
        ELSE /\ handle' = InitHandle(handle)
             /\ hvsc_errno' = HVSC_ERR_IO
             /\ tf_ok' = FALSE
             /\ UNCHANGED <<heap, nextId, stream>>
    /\ tf_op' = "open"
    /\ tf_line' = <<>>
    /\ tf_reads' = 0
    /\ tf_opens' = tf_opens + 1
    /\ tf_oob' = FALSE
    /\ errno_before' = hvsc_errno
    /\ UNCHANGED <<file, faultAt, frees, exceptTf>>

\* line = hvsc_text_file_read(&handle) on an open handle
Read ==
    /\ handle.fp # NULL
    /\ tf_reads < MaxReads
    /\ LET r == hvsc_text_file_read(handle, heap, stream)
       IN  /\ handle' = [handle EXCEPT !.buflen = r.buflen,
                                       !.lineno = r.lineno,
                                       !.linelen = r.linelen]
           /\ heap' = [heap EXCEPT ![handle.buffer] = r.buf,
                                   ![handle.prevbuf] = r.prev]
           /\ stream' = [pos |-> r.pos, eof |-> r.eof]
           /\ hvsc_errno' = ReadErrno(r.kind, hvsc_errno)
           /\ tf_ok' = (r.kind \in {"line", "partial"})
           /\ tf_line' = IF r.kind \in {"line", "partial"} THEN CString(r.buf) ELSE <<>>
           /\ tf_oob' = r.oob
    /\ tf_op' = "read"
    /\ tf_reads' = tf_reads + 1
    /\ errno_before' = hvsc_errno
    /\ UNCHANGED <<file, faultAt, frees, nextId, tf_opens, exceptTf>>

\* hvsc_text_file_close(&handle), in any state of the handle
Close ==
    /\ LET r == hvsc_text_file_close(handle, heap, frees)
       IN  /\ handle' = r.h
           /\ heap' = r.heap
           /\ frees' = r.frees
    /\ stream' = [pos |-> 0, eof |-> FALSE]
    /\ tf_op' = "close"
    /\ tf_ok' = ~(handle.fp = NULL /\ handle.path = NULL
                  /\ handle.buffer = NULL /\ handle.prevbuf = NULL)
    /\ tf_line' = <<>>
    /\ tf_reads' = 0
    /\ tf_oob' = FALSE
    /\ errno_before' = hvsc_errno
    /\ UNCHANGED <<hvsc_errno, file, faultAt, nextId, tf_opens, exceptTf>>

NextTextFile == Open \/ Read \/ Close

SpecTextFile == InitTextFile /\ [][NextTextFile]_vars

(***************************************************************************)
(* hvsc_read_file: read a whole file into a buffer that doubles.           *)
(***************************************************************************)
RfAlphabet == {"a", "b"}

\* the files hvsc_read_file is called on
RfFiles == StringsUpTo(RfAlphabet, MaxBlobLen)

\* fread(ptr, 1, n, fd) with the stream at byte pos of f: the bytes it
\* delivers, and whether it stopped at the end of the file or on an error
Fread(f, fault, pos, n) ==
    LET err == fault > pos /\ fault <= pos + n /\ fault <= Len(f) + 1
        last == IF err THEN fault - 1
                ELSE IF pos + n <= Len(f) THEN pos + n ELSE Len(f)
    IN  [bytes |-> SubSeq(f, pos + 1, last),
         eof |-> ~err /\ pos + n > Len(f),
         err |-> err]

\* the bytes fread stored at data + offset (stores past the block are lost)
StoreBytes(data, offset, bytes) ==
    [k \in 1..Len(data) |->
        IF k > offset /\ k <= offset + Len(bytes) THEN bytes[k - offset]
        ELSE data[k]]

\* if (offset == size)
BufferFull_Never(offset, size) == FALSE
BufferFull(offset, size) == offset = size

\* the loop of hvsc_read_file from one test of offset == size on, up to the
\* short read that ends it
RECURSIVE ReadChunks(_, _, _)
ReadChunks(f, fault, st) ==
    LET grown == IF BufferFull(st.offset, st.size)
                 THEN [st EXCEPT !.size = 2 * st.size,
                                 !.data = Realloc(st.data, 2 * st.size)]
                 ELSE st
        r == Fread(f, fault, grown.offset, READFILE_BLOCK_SIZE)
        stored == [grown EXCEPT
                     !.data = StoreBytes(grown.data, grown.offset, r.bytes),
                     !.oob = grown.oob
                             \/ grown.offset + READFILE_BLOCK_SIZE > grown.size]
    IN  IF Len(r.bytes) < READFILE_BLOCK_SIZE
        THEN [stored EXCEPT !.result = Len(r.bytes),
                            !.kind = IF r.eof THEN "eof" ELSE "error"]
        ELSE ReadChunks(f, fault,
                        [stored EXCEPT !.offset = stored.offset +
                                                   READFILE_BLOCK_SIZE])

\* a block id no live or released block has
FreshBlock(hp, released) == Cardinality(DOMAIN hp) + released + 1

\* the branch of hvsc_read_file for a short read without feof(): what it
\* leaves behind, the block id standing for data
ReadFailed_Leak(st, id) ==
    [ret |-> -1, wrote |-> TRUE, dest |-> NULL, heap |-> (id :> st.data),
     freed |-> 0, fd |-> "closed", err |-> TRUE, oob |-> st.oob]
ReadFailed(st, id) ==
    [ret |-> -1, wrote |-> TRUE, dest |-> NULL, heap |-> <<>>,
     freed |-> 1, fd |-> "closed", err |-> TRUE, oob |-> st.oob]

\* the branch of hvsc_read_file for a short read at the end of the file
ReadDone(st, id) ==
    [ret |-> st.offset + st.result, wrote |-> TRUE, dest |-> id,
     heap |-> (id :> st.data), freed |-> 0, fd |-> "closed", err |-> FALSE,
     oob |-> st.oob]

\* hvsc_read_file(&dest, path) for a path whose fopen succeeds or not
hvsc_read_file(f, fault, fopen_ok, id) ==
    IF ~fopen_ok
    THEN [ret |-> -1, wrote |-> FALSE, dest |-> NULL, heap |-> <<>>,
          freed |-> 0, fd |-> "none", err |-> TRUE, oob |-> FALSE]
    ELSE LET st == ReadChunks(f, fault,
                       [data |-> Malloc(READFILE_BLOCK_SIZE),
                        size |-> READFILE_BLOCK_SIZE, offset |-> 0,
                        result |-> 0, kind |-> "loop", oob |-> FALSE])
         IN  IF st.kind = "eof" THEN ReadDone(st, id) ELSE ReadFailed(st, id)

\* a caller about to read a file into memory: a file on disk, possibly with
\* a byte the device fails to deliver, and a destination pointer not yet set
InitReadFile ==
    /\ rf_file \in RfFiles
    /\ rf_faultAt \in 0..(Len(rf_file) + 1)
    /\ rf_pc = "call"
    /\ rf_ret = 0
    /\ rf_dest = Indet
    /\ rf_heap = <<>>
    /\ rf_frees = 0
    /\ rf_fd = "none"
    /\ rf_oob = FALSE
    /\ hvsc_errno \in {HVSC_ERR_OK, HVSC_ERR_TIMESTAMP}
    /\ errno_before = hvsc_errno
    /\ IdleExceptRf

\* the call  rf_ret = hvsc_read_file(&rf_dest, path)
ReadFile ==
    /\ rf_pc = "call"
    /\ \E fopen_ok \in BOOLEAN :
         LET r == hvsc_read_file(rf_file, rf_faultAt, fopen_ok,
                                 FreshBlock(rf_heap, rf_frees))
         IN  /\ rf_ret' = r.ret
             /\ rf_dest' = IF r.wrote THEN r.dest ELSE rf_dest
             /\ rf_heap' = r.heap
             /\ rf_frees' = rf_frees + r.freed
             /\ rf_fd' = r.fd
             /\ rf_oob' = r.oob
             /\ hvsc_errno' = IF r.err THEN HVSC_ERR_IO ELSE hvsc_errno
    /\ rf_pc' = "done"
    /\ errno_before' = hvsc_errno
    /\ UNCHANGED <<rf_file, rf_faultAt, exceptRf>>

NextReadFile == ReadFile

SpecReadFile == InitReadFile /\ [][NextReadFile]_vars

(***************************************************************************)
(* The HVSC paths: hvsc_set_paths, hvsc_free_paths, hvsc_paths_join,       *)
(* hvsc_path_strip_root and hvsc_path_is_hvsc.  A path string is the       *)
(* sequence of its characters, the NUL left out.                           *)
(***************************************************************************)
\* the character hvsc_paths_join stores between the two paths
PathSeparator == "/"

PathAlphabet == {"a", PathSeparator}

\* the roots hvsc_set_paths is given, the empty string among them: "/",
\* "//", ... so that paths both under and outside the root are drawn
RootInputs == StringsUpTo({PathSeparator}, MaxRootLen)

\* the paths hvsc_path_strip_root and hvsc_path_is_hvsc are given
PathInputs == StringsUpTo(PathAlphabet, MaxPathLen)

\* the file names of base.h hvsc_set_paths joins to the root; their text is
\* of no account, they stand for three different names
HVSC_SLDB_FILE == <<"S">>
HVSC_STIL_FILE == <<"T">>
HVSC_BUGS_FILE == <<"B">>

\* hvsc_strdup(s): a block of strlen(s) + 1 bytes with the bytes of s
hvsc_strdup(s) == [k \in 1..Len(s) |-> s[k]]

\* hvsc_paths_join(p1, p2) for two strings (neither caller passes NULL)
hvsc_paths_join_NoSeparator(p1, p2) == p1 \o p2
hvsc_paths_join(p1, p2) ==
    [k \in 1..(Len(p1) + Len(p2) + 1) |->
        IF k <= Len(p1) THEN p1[k]
        ELSE IF k = Len(p1) + 1 THEN PathSeparator
        ELSE p2[k - Len(p1) - 1]]

\* memcmp(a, b, n) == 0
MemEqual(a, b, n) == \A k \in 1..n : CharAt(a, k) = CharAt(b, k)

\* the address hvsc_malloc returns: one no live block has
NewBlock(hp) ==
    CHOOSE n \in 1..(Cardinality(DOMAIN hp) + 1) :
        /\ n \notin DOMAIN hp
        /\ \A m \in 1..(n - 1) : m \in DOMAIN hp

\* a new block holding s
Alloc(hp, s) == (NewBlock(hp) :> s) @@ hp

\* hvsc_set_paths(path): the four globals and the heap after it
hvsc_set_paths(g, hp, path) ==
    LET root == NewBlock(hp)
        h1 == Alloc(hp, hvsc_strdup(path))
        sldb == NewBlock(h1)
        h2 == Alloc(h1, hvsc_paths_join(h1[root], HVSC_SLDB_FILE))
        stil == NewBlock(h2)
        h3 == Alloc(h2, hvsc_paths_join(h2[root], HVSC_STIL_FILE))
        bugs == NewBlock(h3)
        h4 == Alloc(h3, hvsc_paths_join(h3[root], HVSC_BUGS_FILE))
    IN  [g |-> [root |-> root, sldb |-> sldb, stil |-> stil, bugs |-> bugs],
         heap |-> h4]

\* if (p != NULL) { hvsc_free(p); p = NULL; }
FreeAndClear(hp, ptr) ==
    IF ptr # NULL THEN [heap |-> Unmapped(hp, ptr), ptr |-> NULL]
    ELSE [heap |-> hp, ptr |-> ptr]

\* hvsc_free_paths(): the four globals and the heap after it
hvsc_free_paths_KeepsBugs(g, hp) ==
    LET r1 == FreeAndClear(hp, g.root)
        r2 == FreeAndClear(r1.heap, g.sldb)
        r3 == FreeAndClear(r2.heap, g.stil)
    IN  [g |-> [root |-> r1.ptr, sldb |-> r2.ptr, stil |-> r3.ptr,
                bugs |-> g.bugs],
         heap |-> r3.heap]
hvsc_free_paths(g, hp) ==
    LET r1 == FreeAndClear(hp, g.root)
        r2 == FreeAndClear(r1.heap, g.sldb)
        r3 == FreeAndClear(r2.heap, g.stil)
        r4 == FreeAndClear(r3.heap, g.bugs)
    IN  [g |-> [root |-> r1.ptr, sldb |-> r2.ptr, stil |-> r3.ptr,
                bugs |-> r4.ptr],
         heap |-> r4.heap]

\* rlen of hvsc_path_strip_root: 0 without a root
RootLen(g, hp) == IF g.root = NULL THEN 0 ELSE Len(hp[g.root])

\* plen <= rlen
PathTooShort_Strict(plen, rlen) == plen < rlen
PathTooShort(plen, rlen) == plen <= rlen

\* hvsc_path_strip_root(path): the string in the block it returns, and the
\* caller's string as it leaves it
hvsc_path_strip_root(g, hp, path) ==
    LET plen == Len(path)
        rlen == RootLen(g, hp)
    IN  [input |-> path,
         result |->
            IF rlen = 0 THEN hvsc_strdup(path)
            ELSE IF PathTooShort(plen, rlen) THEN hvsc_strdup(path)
            ELSE IF MemEqual(path, hp[g.root], rlen)
                 THEN [k \in 1..(plen - rlen) |-> path[rlen + k]]
                 ELSE hvsc_strdup(path)]

\* rlen >= plen
RootTooLong_Strict(rlen, plen) == rlen > plen
RootTooLong(rlen, plen) == rlen >= plen

\* hvsc_path_is_hvsc(path)
hvsc_path_is_hvsc(g, hp, path) ==
    IF g.root = NULL THEN FALSE
    ELSE IF RootTooLong(Len(hp[g.root]), Len(path)) THEN FALSE
    ELSE MemEqual(path, hp[g.root], Len(hp[g.root]))

\* the four globals as one record
Globals ==
    [root |-> hvsc_root_path, sldb |-> hvsc_sldb_path,
     stil |-> hvsc_stil_path, bugs |-> hvsc_bugs_path]

\* a program that has made no path call yet
InitPaths ==
    /\ hvsc_root_path = NULL
    /\ hvsc_sldb_path = NULL
    /\ hvsc_stil_path = NULL
    /\ hvsc_bugs_path = NULL
    /\ p_heap = <<>>
    /\ p_sets = 0
    /\ p_op = "init"
    /\ p_arg = <<>>
    /\ p_in = <<>>
    /\ p_res = NULL
    /\ p_bool = FALSE
    /\ p_trip = <<>>
    /\ hvsc_errno \in {HVSC_ERR_OK, HVSC_ERR_IO}
    /\ errno_before = hvsc_errno
    /\ IdleExceptP

\* the call  hvsc_set_paths(path)
SetPaths ==
    /\ p_res = NULL
    /\ p_sets < MaxSets
    /\ \E path \in RootInputs :
         LET r == hvsc_set_paths(Globals, p_heap, path)
         IN  /\ hvsc_root_path' = r.g.root
             /\ hvsc_sldb_path' = r.g.sldb
             /\ hvsc_stil_path' = r.g.stil
             /\ hvsc_bugs_path' = r.g.bugs
             /\ p_heap' = r.heap
             /\ p_arg' = path
             /\ p_in' = path
    /\ p_sets' = p_sets + 1
    /\ p_op' = "set"
    /\ p_bool' = FALSE
    /\ p_trip' = <<>>
    /\ errno_before' = hvsc_errno
    /\ UNCHANGED <<hvsc_errno, p_res, exceptP>>

\* the call  hvsc_free_paths()
FreePaths ==
    /\ p_res = NULL
    /\ LET r == hvsc_free_paths(Globals, p_heap)
       IN  /\ hvsc_root_path' = r.g.root
           /\ hvsc_sldb_path' = r.g.sldb
           /\ hvsc_stil_path' = r.g.stil
           /\ hvsc_bugs_path' = r.g.bugs
           /\ p_heap' = r.heap
    /\ p_op' = "free"
    /\ p_arg' = <<>>
    /\ p_in' = <<>>
    /\ p_bool' = FALSE
    /\ p_trip' = <<>>
    /\ errno_before' = hvsc_errno
    /\ UNCHANGED <<hvsc_errno, p_sets, p_res, exceptP>>

\* the call  p_res = hvsc_path_strip_root(path)
StripRoot ==
    /\ p_res = NULL
    /\ \E path \in PathInputs :
         LET r == hvsc_path_strip_root(Globals, p_heap, path)
         IN  /\ p_res' = NewBlock(p_heap)
             /\ p_heap' = Alloc(p_heap, r.result)
             /\ p_arg' = path
             /\ p_in' = r.input
    /\ p_op' = "strip"
    /\ p_bool' = FALSE
    /\ p_trip' = <<>>
    /\ errno_before' = hvsc_errno
    /\ UNCHANGED <<hvsc_errno, pathGlobals, p_sets, exceptP>>

\* the call  p_bool = hvsc_path_is_hvsc(path)
IsHvsc ==
    /\ p_res = NULL
    /\ \E path \in PathInputs :
         /\ p_bool' = hvsc_path_is_hvsc(Globals, p_heap, path)
         /\ p_arg' = path
         /\ p_in' = path
    /\ p_op' = "is"
    /\ p_trip' = <<>>
    /\ errno_before' = hvsc_errno
    /\ UNCHANGED <<hvsc_errno, pathGlobals, p_heap, p_sets, p_res, exceptP>>

\* a caller with a root configured joins a relative path x to it, strips
\* the root from the result and joins what is left to the root again,
\* releasing the three strings when it has compared them
RoundTrip ==
    /\ p_res = NULL
    /\ hvsc_root_path # NULL
    /\ \E x \in PathInputs :
         LET root == p_heap[hvsc_root_path]
             first == hvsc_paths_join(root, x)
             stripped == hvsc_path_strip_root(Globals, p_heap, first).result
             second == hvsc_paths_join(root, stripped)
         IN  /\ p_trip' = [first |-> first, stripped |-> stripped,
                           second |-> second]
             /\ p_arg' = x
             /\ p_in' = x
    /\ p_op' = "trip"
    /\ p_bool' = FALSE
    /\ errno_before' = hvsc_errno
    /\ UNCHANGED <<hvsc_errno, pathGlobals, p_heap, p_sets, p_res, exceptP>>

\* the caller releases the string hvsc_path_strip_root returned
Release ==
    /\ p_res # NULL
    /\ p_heap' = Unmapped(p_heap, p_res)
    /\ p_res' = NULL
    /\ p_op' = "release"
    /\ p_arg' = <<>>
    /\ p_in' = <<>>
    /\ UNCHANGED <<hvsc_errno, errno_before, pathGlobals, p_sets, p_bool,
                   p_trip, exceptP>>

NextPaths ==
    SetPaths \/ FreePaths \/ StripRoot \/ IsHvsc \/ RoundTrip \/ Release

SpecPaths == InitPaths /\ [][NextPaths]_vars

(***************************************************************************)
(* hvsc_get_field_type: find the STIL field identifier a line begins with. *)
(***************************************************************************)
\* static const char *field_identifiers[], without its closing NULL
field_identifiers ==
    << <<" ", "A", "R", "T", "I", "S", "T", ":">>,
       <<" ", "A", "U", "T", "H", "O", "R", ":">>,
       <<" ", " ", " ", " ", "B", "U", "G", ":">>,
       <<"C", "O", "M", "M", "E", "N", "T", ":">>,
       <<" ", " ", " ", "N", "A", "M", "E", ":">>,
       <<" ", " ", "T", "I", "T", "L", "E", ":">> >>

\* the count strncmp is given
FIELD_ID_LEN == 8

HVSC_FIELD_INVALID == -1

\* strncmp(s, t, n) == 0 from character k on: the strings agree up to the
\* n-th character or up to the NUL that ends both
RECURSIVE StrncmpEqual_UpToEnd(_, _, _, _)
StrncmpEqual_UpToEnd(s, t, k, n) ==
    IF k > n \/ k > Len(s) THEN TRUE
    ELSE IF CharAt(s, k) # CharAt(t, k) THEN FALSE
    ELSE StrncmpEqual_UpToEnd(s, t, k + 1, n)
RECURSIVE StrncmpEqual(_, _, _, _)
StrncmpEqual(s, t, k, n) ==
    IF k > n THEN TRUE
    ELSE IF CharAt(s, k) # CharAt(t, k) THEN FALSE
    ELSE IF CharAt(s, k) = NUL THEN TRUE
    ELSE StrncmpEqual(s, t, k + 1, n)

\* the while loop of hvsc_get_field_type from entry i of the table on (the
\* table is indexed from 1 here, the value returned from 0 as in C)
RECURSIVE ScanFieldIdentifiers_OneBased(_, _)
ScanFieldIdentifiers_OneBased(s, i) ==
    IF i > Len(field_identifiers) THEN HVSC_FIELD_INVALID
    ELSE IF StrncmpEqual(s, field_identifiers[i], 1, FIELD_ID_LEN) THEN i
    ELSE ScanFieldIdentifiers_OneBased(s, i + 1)
RECURSIVE ScanFieldIdentifiers(_, _)
ScanFieldIdentifiers(s, i) ==
    IF i > Len(field_identifiers) THEN HVSC_FIELD_INVALID
    ELSE IF StrncmpEqual(s, field_identifiers[i], 1, FIELD_ID_LEN) THEN i - 1
    ELSE ScanFieldIdentifiers(s, i + 1)

hvsc_get_field_type(s) == ScanFieldIdentifiers(s, 1)

\* the text drawn after an identifier
FtSuffixes == StringsUpTo({" ", "x"}, MaxSuffixLen)

\* a line of the STIL that is two blanks, TITLE: and the title
TitleLine ==
    <<" ", " ", "T", "I", "T", "L", "E", ":",
      "S", "o", "m", "e", " ", "S", "o", "n", "g">>

\* the lines hvsc_get_field_type is given: an identifier and some text; an
\* identifier cut short; one with a character replaced; one with a blank
\* more or a character less in front; the titled line, also with a third
\* blank in front
FtInputs ==
    LET tags == {field_identifiers[i] : i \in 1..Len(field_identifiers)}
    IN  {t \o x : t \in tags, x \in FtSuffixes}
        \cup {SubSeq(t, 1, k) : t \in tags, k \in 0..(FIELD_ID_LEN - 1)}
        \cup {[t EXCEPT ![k] = c] : t \in tags, k \in 1..FIELD_ID_LEN,
                                    c \in {" ", "x", ":"}}
        \cup {<<" ">> \o t \o x : t \in tags, x \in FtSuffixes}
        \cup {Tail(t) \o x : t \in tags, x \in FtSuffixes}
        \cup {TitleLine, <<" ">> \o TitleLine}

\* a caller about to classify a line of the STIL
InitFieldType ==
    /\ ft_line \in FtInputs
    /\ ft_pc = "call"
    /\ ft_ret = 0
    /\ hvsc_errno \in {HVSC_ERR_OK, HVSC_ERR_IO}
    /\ errno_before = hvsc_errno
    /\ IdleExceptFt

\* the call  ft_ret = hvsc_get_field_type(ft_line)
GetFieldType ==
    /\ ft_pc = "call"
    /\ ft_ret' = hvsc_get_field_type(ft_line)
    /\ ft_pc' = "done"
    /\ errno_before' = hvsc_errno
    /\ UNCHANGED <<hvsc_errno, ft_line, exceptFt>>

NextFieldType == GetFieldType

SpecFieldType == InitFieldType /\ [][NextFieldType]_vars

(***************************************************************************)
(* hvsc_md5_digest: the MD5 hash of a file as a string of hex digits.      *)
(***************************************************************************)
\* the bytes of an MD5 hash (HVSC_DIGEST_SIZE of base.h)
HVSC_DIGEST_SIZE == 16

\* static const char digits[] = "0123456789abcdef"
HexDigits ==
    <<"0", "1", "2", "3", "4", "5", "6", "7", "8", "9",
      "a", "b", "c", "d", "e", "f">>

\* what md5File(fp, hash) may leave in hash: every byte value occurs, at
\* every index, in one of these
Md5Hashes ==
    {[i \in 1..HVSC_DIGEST_SIZE |-> (b + 17 * (i - 1)) % 256] : b \in 0..255}
    \cup {[i \in 1..HVSC_DIGEST_SIZE |-> b] : b \in {0, 255}}

\* the caller's buffer before the call: room for the digits, the NUL and one
\* byte more, nothing stored in it yet
DigestBuffer == [k \in 1..(2 * HVSC_DIGEST_SIZE + 2) |-> Indet]

\* digits[b >> 4], digits[b & 0x0f]
HexPair_LowFirst(b) == <<HexDigits[(b % 16) + 1], HexDigits[(b \div 16) + 1]>>
HexPair(b) == <<HexDigits[(b \div 16) + 1], HexDigits[(b % 16) + 1]>>

\* the for loop over hash and the store of the NUL after it
RenderDigest(hash, digest) ==
    [k \in 1..Len(digest) |->
        IF k <= 2 * Len(hash)
        THEN HexPair(hash[(k + 1) \div 2])[IF k % 2 = 1 THEN 1 ELSE 2]
        ELSE IF k = 2 * Len(hash) + 1 THEN NUL
        ELSE digest[k]]

\* hvsc_md5_digest(psid, digest) for a file whose fopen succeeds or not and
\* whose hash md5File computes
hvsc_md5_digest(hash, fopen_ok, digest) ==
    IF ~fopen_ok
    THEN [ret |-> FALSE, digest |-> digest, fp |-> "none", err |-> TRUE]
    ELSE [ret |-> TRUE, digest |-> RenderDigest(hash, digest),
          fp |-> "closed", err |-> FALSE]

\* a caller about to ask for the digest of a file
InitMd5 ==
    /\ md_hash \in Md5Hashes
    /\ md_pc = "call"
    /\ md_ret = FALSE
    /\ md_digest = DigestBuffer
    /\ md_fp = "none"
    /\ hvsc_errno \in {HVSC_ERR_OK, HVSC_ERR_TIMESTAMP}
    /\ errno_before = hvsc_errno
    /\ IdleExceptMd

\* the call  md_ret = hvsc_md5_digest(psid, md_digest)
Md5Digest ==
    /\ md_pc = "call"
    /\ \E fopen_ok \in BOOLEAN :
         LET r == hvsc_md5_digest(md_hash, fopen_ok, md_digest)
         IN  /\ md_ret' = r.ret
             /\ md_digest' = r.digest
             /\ md_fp' = r.fp
             /\ hvsc_errno' = IF r.err THEN HVSC_ERR_IO ELSE hvsc_errno
    /\ md_pc' = "done"
    /\ errno_before' = hvsc_errno
    /\ UNCHANGED <<md_hash, exceptMd>>

NextMd5 == Md5Digest

SpecMd5 == InitMd5 /\ [][NextMd5]_vars

(***************************************************************************)
(* The operations that can store into hvsc_errno, called in any order by   *)
(* one program (the path functions, which never name hvsc_errno, left out).*)
(***************************************************************************)
\* one timestamp that parses and one that does not
LibTimestamps == {<<"5", ":", "0", "6">>, <<"5", ":", "6", "0">>}

\* a text file of one line: read to its end, or failing at its first byte
LibTextFiles == {<<"a", LF>>}

\* a file of three bytes: read whole, or failing at its first byte
LibBlobs == {<<"a", "b", "a">>}

\* a program about to use the library, hvsc_errno as the loader zeroes it
InitLibrary ==
    /\ ts_input \in LibTimestamps
    /\ ts_pc = "call"
    /\ ts_ret = 0
    /\ endptr = 0
    /\ endptr_written = FALSE
    /\ file \in LibTextFiles
    /\ faultAt \in 0..1
    /\ stream = [pos |-> 0, eof |-> FALSE]
    /\ handle = InitHandle(<<>>)
    /\ heap = <<>>
    /\ frees = <<>>
    /\ nextId = 1
    /\ tf_op = "init"
    /\ tf_ok = FALSE
    /\ tf_line = <<>>
    /\ tf_reads = 0
    /\ tf_opens = 0
    /\ tf_oob = FALSE
    /\ rf_file \in LibBlobs
    /\ rf_faultAt \in 0..1
    /\ rf_pc = "call"
    /\ rf_ret = 0
    /\ rf_dest = Indet
    /\ rf_heap = <<>>
    /\ rf_frees = 0
    /\ rf_fd = "none"
    /\ rf_oob = FALSE
    /\ ft_line = TitleLine
    /\ ft_pc = "call"
    /\ ft_ret = 0
    /\ md_hash = [i \in 1..HVSC_DIGEST_SIZE |-> 0]
    /\ md_pc = "call"
    /\ md_ret = FALSE
    /\ md_digest = DigestBuffer
    /\ md_fp = "none"
    /\ hvsc_errno = HVSC_ERR_OK
    /\ errno_before = hvsc_errno
    /\ PIdle
    /\ ExIdle
    /\ VsIdle
    /\ VrIdle

NextLibrary ==
    \/ ParseTimestamp
    \/ Open
    \/ Read
    \/ Close
    \/ ReadFile
    \/ GetFieldType
    \/ Md5Digest

SpecLibrary == InitLibrary /\ [][NextLibrary]_vars

(***************************************************************************)
(* The expansion port's export list (src/unnamed/part_000, vic20export.c): *)
(* a doubly linked list of export_list_t behind a static head.  A node is  *)
(* [device, next, previous]; an export_resource_t is known by its address. *)
(***************************************************************************)
\* &vic20export_head
ExportHead == 1

\* the devices that register: addresses of export_resource_t, none NULL
ExDevices == 1..MaxDevices

\* export_list_t vic20export_head = { NULL, NULL, NULL }
EmptyExportList ==
    (ExportHead :> [device |-> NULL, next |-> NULL, previous |-> NULL])

\* export_query_list(item)
export_query_list(nodes, item) ==
    IF item # NULL THEN nodes[item].next ELSE nodes[ExportHead].next

\* while (current->next != NULL) { current = current->next; }
RECURSIVE FindLast(_, _)
FindLast(nodes, current) ==
    IF nodes[current].next # NULL THEN FindLast(nodes, nodes[current].next)
    ELSE current

\* export_add(export_res): the list after it and the value returned
export_add(nodes, export_res) ==
    LET newentry == NewBlock(nodes)
        current == FindLast(nodes, ExportHead)
        linked == [nodes EXCEPT ![current].next = newentry]
    IN  [nodes |-> (newentry :> [device |-> export_res, next |-> NULL,
                                 previous |-> current]) @@ linked,
         ret |-> 0]

\* the while loop of export_remove: the first entry from current on whose
\* device is export_res, or NULL
RECURSIVE FindEntry(_, _, _)
FindEntry(nodes, current, export_res) ==
    IF current = NULL THEN NULL
    ELSE IF nodes[current].device # NULL /\ nodes[current].device = export_res
         THEN current
         ELSE FindEntry(nodes, nodes[current].next, export_res)

\* prev->next = current->next; if (current->next) current->next->previous
\* = prev; lib_free(current)
Unlink_NextOnly(nodes, current) ==
    LET prev == nodes[current].previous
    IN  Unmapped([nodes EXCEPT ![prev].next = nodes[current].next], current)
Unlink(nodes, current) ==
    LET prev == nodes[current].previous
        next == nodes[current].next
        n1 == [nodes EXCEPT ![prev].next = next]
        n2 == IF next # NULL THEN [n1 EXCEPT ![next].previous = prev] ELSE n1
    IN  Unmapped(n2, current)

\* export_remove(export_res): the list after it and the value returned
export_remove(nodes, export_res) ==
    LET current == FindEntry(nodes, nodes[ExportHead].next, export_res)
    IN  IF current # NULL THEN [nodes |-> Unlink(nodes, current), ret |-> 0]
        ELSE [nodes |-> nodes, ret |-> -1]

\* the program before any device registers
InitExport ==
    /\ ex_nodes = EmptyExportList
    /\ ex_op = "init"
    /\ ex_arg = NULL
    /\ ex_ret = 0
    /\ hvsc_errno = HVSC_ERR_OK
    /\ errno_before = hvsc_errno
    /\ IdleExceptEx

\* the call  ex_ret = export_add(export_res)
ExportAdd ==
    /\ Cardinality(DOMAIN ex_nodes) <= MaxExports
    /\ \E export_res \in ExDevices :
         LET r == export_add(ex_nodes, export_res)
         IN  /\ ex_nodes' = r.nodes
             /\ ex_ret' = r.ret
             /\ ex_arg' = export_res
    /\ ex_op' = "add"
    /\ UNCHANGED <<hvsc_errno, errno_before, exceptEx>>

\* the call  ex_ret = export_remove(export_res)
ExportRemove ==
    /\ \E export_res \in ExDevices :
         LET r == export_remove(ex_nodes, export_res)
         IN  /\ ex_nodes' = r.nodes
             /\ ex_ret' = r.ret
             /\ ex_arg' = export_res
    /\ ex_op' = "remove"
    /\ UNCHANGED <<hvsc_errno, errno_before, exceptEx>>

NextExport == ExportAdd \/ ExportRemove

SpecExport == InitExport /\ [][NextExport]_vars

(***************************************************************************)
(* The VSID action handlers (src/vice/src/arch/gtk3/actions-vsid.c).  The  *)
(* shared vsid_state_t is [tune_current, tune_count, tune_default,         *)
(* psid_filename]; a handler's run is the state it leaves, the tune it     *)
(* hands to machine_play_psid and the trace of its vsid_state_lock(),      *)
(* vsid_state_unlock() calls and field reads and writes, in program order. *)
(* The build without HAVE_DEBUG_GTK3UI is the one modelled.                *)
(***************************************************************************)
\* the values the code that fills vsid_state_t may have left in tune_current
\* and tune_default: stopped (-1), none (0), a subtune, or past the last one
TuneValues == (-1)..(MaxTunes + 2)

\* vsid_state_lock(), vsid_state_unlock()
Lock == <<"lock">>
Unlock == <<"unlock">>

\* state->field read, state->field = ... written
ReadField(field) == <<"read " \o field>>
WriteField(field) == <<"write " \o field>>

\* play_current_tune(): the trace and the tune played
play_current_tune(st) ==
    [trace |-> Lock \o ReadField("tune_current") \o Unlock,
     played |-> st.tune_current]

\* psid_play_action()
psid_play_action(st) ==
    LET current == st.tune_current
    IN  IF current <= 0
        THEN [st |-> [st EXCEPT !.tune_current = st.tune_default],
              trace |-> Lock \o ReadField("tune_current")
                        \o ReadField("tune_default")
                        \o WriteField("tune_current") \o Unlock
                        \o ReadField("psid_filename")
                        \o (IF st.psid_filename # NULL
                            THEN ReadField("psid_filename") ELSE <<>>),
              played |-> st.tune_default]
        ELSE [st |-> st,
              trace |-> Lock \o ReadField("tune_current") \o Unlock,
              played |-> st.played]

\* psid_stop_action()
psid_stop_action(st) ==
    [st |-> [st EXCEPT !.tune_current = -1],
     trace |-> Lock \o WriteField("tune_current") \o Unlock,
     played |-> -1]

\* if (state->tune_current >= state->tune_count || state->tune_current < 1)
NextWraps(st) ==
    st.tune_current >= st.tune_count \/ st.tune_current < 1

\* psid_subtune_next_action()
psid_subtune_next_action(st) ==
    LET after == [st EXCEPT !.tune_current =
                      IF NextWraps(st) THEN 1 ELSE st.tune_current + 1]
        play == play_current_tune(after)
    IN  [st |-> after,
         trace |-> Lock \o ReadField("tune_current") \o ReadField("tune_count")
                   \o (IF st.tune_current >= st.tune_count THEN <<>>
                       ELSE ReadField("tune_current"))
                   \o (IF NextWraps(st) THEN <<>>
                       ELSE ReadField("tune_current"))
                   \o WriteField("tune_current") \o Unlock \o play.trace,
         played |-> play.played]

\* if (state->tune_current <= 1)
PreviousWraps(st) == st.tune_current <= 1

\* psid_subtune_previous_action()
psid_subtune_previous_action(st) ==
    LET after == [st EXCEPT !.tune_current =
                      IF PreviousWraps(st) THEN st.tune_count
                      ELSE st.tune_current - 1]
        play == play_current_tune(after)
    IN  [st |-> after,
         trace |-> Lock \o ReadField("tune_current")
                   \o (IF PreviousWraps(st) THEN ReadField("tune_count")
                       ELSE ReadField("tune_current"))
                   \o WriteField("tune_current") \o Unlock \o play.trace,
         played |-> play.played]

\* the vsid_state_t and the tune playing, as one record
VsidState ==
    [tune_current |-> vs_tune_current, tune_count |-> vs_tune_count,
     tune_default |-> vs_tune_default, psid_filename |-> vs_psid_filename,
     played |-> vs_played]

\* the handler named op has run with result r
VsidRan(op, r) ==
    /\ vs_op' = op
    /\ vs_before' = vs_tune_current
    /\ vs_tune_current' = r.st.tune_current
    /\ vs_trace' = r.trace
    /\ vs_played' = r.played
    /\ UNCHANGED <<vs_tune_count, vs_tune_default, vs_psid_filename>>
    /\ UNCHANGED <<hvsc_errno, errno_before, exceptVs>>

\* a PSID file with at least one subtune is loaded
InitVsid ==
    /\ vs_tune_count \in 1..MaxTunes
    /\ vs_tune_current \in TuneValues
    /\ vs_tune_default \in TuneValues
    /\ vs_psid_filename \in {NULL, 1}
    /\ vs_op = "init"
    /\ vs_before = vs_tune_current
    /\ vs_trace = <<>>
    /\ vs_played = vs_tune_current
    /\ hvsc_errno = HVSC_ERR_OK
    /\ errno_before = hvsc_errno
    /\ IdleExceptVs

PsidPlay == VsidRan("play", psid_play_action(VsidState))

PsidStop == VsidRan("stop", psid_stop_action(VsidState))

PsidSubtuneNext == VsidRan("next", psid_subtune_next_action(VsidState))

PsidSubtunePrevious ==
    VsidRan("previous", psid_subtune_previous_action(VsidState))

NextVsid == PsidPlay \/ PsidStop \/ PsidSubtuneNext \/ PsidSubtunePrevious

SpecVsid == InitVsid /\ [][NextVsid]_vars

(***************************************************************************)
(* The video resource setters (src/unnamed/part_001, video-resources.c).   *)
(* video_color_update_palette() is outside this file: what it returns is   *)
(* an input of each call, and it sees the resources as the setter has      *)
(* stored them so far.                                                     *)
(***************************************************************************)
\* the values the resource system hands to a setter
ResourceValues == 0..MaxResource

\* what video_color_update_palette() returns: failure or success
PaletteResults == {-1, 0}

\* if (video_color_update_palette() < 0)
UpdateFailed_Never(result) == FALSE
UpdateFailed(result) == result < 0

\* set_delayloop_emulation(v, param), the palette update returning result:
\* the field afterwards, what the update saw, and the value returned
set_delayloop_emulation(field, v, result) ==
    LET old == field
        stored == v
    IN  IF UpdateFailed(result)
        THEN [field |-> old, seen |-> stored, ret |-> -1]
        ELSE [field |-> stored, seen |-> stored, ret |-> 0]

\* set_ext_palette(v, param), the palette update returning result
set_ext_palette(field, v, result) ==
    [field |-> v, ret |-> result]

\* video_resources as its initialiser leaves it
InitVideo ==
    /\ vr_delayloop_emulation = 0
    /\ vr_ext_palette = 0
    /\ vr_op = "init"
    /\ vr_arg = 0
    /\ vr_old = 0
    /\ vr_seen = 0
    /\ vr_result = 0
    /\ vr_ret = 0
    /\ hvsc_errno = HVSC_ERR_OK
    /\ errno_before = hvsc_errno
    /\ IdleExceptVr

\* resources_set_value("PALEmulation", v)
SetDelayloopEmulation ==
    /\ \E v \in ResourceValues, result \in PaletteResults :
         LET r == set_delayloop_emulation(vr_delayloop_emulation, v, result)
         IN  /\ vr_delayloop_emulation' = r.field
             /\ vr_seen' = r.seen
             /\ vr_ret' = r.ret
             /\ vr_arg' = v
             /\ vr_result' = result
    /\ vr_old' = vr_delayloop_emulation
    /\ vr_op' = "delayloop"
    /\ UNCHANGED vr_ext_palette
    /\ UNCHANGED <<hvsc_errno, errno_before, exceptVr>>

\* resources_set_value("ExternalPalette", v)
SetExtPalette ==
    /\ \E v \in ResourceValues, result \in PaletteResults :
         LET r == set_ext_palette(vr_ext_palette, v, result)
         IN  /\ vr_ext_palette' = r.field
             /\ vr_ret' = r.ret
             /\ vr_arg' = v
             /\ vr_result' = result
    /\ vr_seen' = vr_delayloop_emulation
    /\ vr_old' = vr_delayloop_emulation
    /\ vr_op' = "ext_palette"
    /\ UNCHANGED vr_delayloop_emulation
    /\ UNCHANGED <<hvsc_errno, errno_before, exceptVr>>

NextVideo == SetDelayloopEmulation \/ SetExtPalette

SpecVideo == InitVideo /\ [][NextVideo]_vars

(***************************************************************************)
(* What a timestamp string denotes, read off its text (not off the scan).  *)
(***************************************************************************)
AllDigits(d) == \A i \in 1..Len(d) : d[i] \in Digits

RECURSIVE Pow10(_)
Pow10(n) == IF n = 0 THEN 1 ELSE 10 * Pow10(n - 1)

\* the number a digit run denotes: the sum of its digits times their weights
RECURSIVE WeightedSum(_, _)
WeightedSum(d, i) ==
    IF i > Len(d) THEN 0
    ELSE DigitVal(d[i]) * Pow10(Len(d) - i) + WeightedSum(d, i + 1)

DecVal(d) == WeightedSum(d, 1)

\* c is the index of the ':' that ends the minutes digit run of str
ColonEndsMinutes(str, c) ==
    /\ c \in 1..Len(str)
    /\ str[c] = ":"
    /\ AllDigits(SubSeq(str, 1, c - 1))

MinutesOf(str, c) == SubSeq(str, 1, c - 1)

\* the seconds and fraction digit runs of a string with its ':' at c and its
\* '.' at d (d = 0: no fraction)
SecondsOf(str, c, d) == SubSeq(str, c + 1, IF d = 0 THEN Len(str) ELSE d - 1)

FractionOf(str, d) == IF d = 0 THEN <<>> ELSE SubSeq(str, d + 1, Len(str))

\* no prefix of the digit run d exceeds 59
NeverExceeds59(d) == \A k \in 1..Len(d) : DecVal(SubSeq(d, 1, k)) <= 59

\* str is M ':' S, or M ':' S '.' F with F of 1 to 3 digits
ValidTimestamp(str, c, d) ==
    /\ ColonEndsMinutes(str, c)
    /\ d \in {0} \cup (c + 1)..Len(str)
    /\ d # 0 => str[d] = "."
    /\ AllDigits(SecondsOf(str, c, d))
    /\ NeverExceeds59(SecondsOf(str, c, d))
    /\ AllDigits(FractionOf(str, d))
    /\ d # 0 => Len(FractionOf(str, d)) \in 1..3

MillisecondsOf(str, c, d) ==
    (DecVal(MinutesOf(str, c)) * 60 + DecVal(SecondsOf(str, c, d))) * 1000
    + (IF d = 0 THEN 0
       ELSE DecVal(FractionOf(str, d)) * Pow10(3 - Len(FractionOf(str, d))))

SecondsReach60(str, c, k) ==
    /\ ColonEndsMinutes(str, c)
    /\ k \in 1..(Len(str) - c)
    /\ AllDigits(SubSeq(str, c + 1, c + k))
    /\ DecVal(SubSeq(str, c + 1, c + k)) >= 60

\* C2: when the seconds digit run reaches 60 or more after any digit, the
\* parse fails with -1 and hvsc_errno is HVSC_ERR_TIMESTAMP afterwards.
C2_SecondsOver59Fail ==
    ts_pc = "done" =>
        \A c \in 1..Len(ts_input) : \A k \in 1..Len(ts_input) :
            SecondsReach60(ts_input, c, k) =>
                ts_ret = -1 /\ hvsc_errno = HVSC_ERR_TIMESTAMP

\* a parse that failed on seconds of exactly 60, the error slot holding
\* another code before the call
C2_Witness ==
    /\ ts_pc = "done"
    /\ \E c \in 1..Len(ts_input) :
          /\ SecondsReach60(ts_input, c, 2)
          /\ DecVal(SubSeq(ts_input, c + 1, c + 2)) = 60
    /\ ts_ret = -1
    /\ errno_before # HVSC_ERR_TIMESTAMP
    /\ hvsc_errno = HVSC_ERR_TIMESTAMP

\* the first character of str that is not a digit (Len + 1: its NUL)
FirstNonDigit(str) ==
    CHOOSE t \in 1..(Len(str) + 1) :
        /\ ~IsDigit(CharAt(str, t))
        /\ AllDigits(SubSeq(str, 1, t - 1))

\* the character after the minutes digit run is not ':'
NoColonInput(str) == CharAt(str, FirstNonDigit(str)) # ":"

\* str has its ':' at c, seconds that stay within 59, then a '.' at d with
\* no digit after it
DanglingDotInput(str, c, d) ==
    /\ ColonEndsMinutes(str, c)
    /\ d \in (c + 1)..Len(str)
    /\ str[d] = "."
    /\ AllDigits(SubSeq(str, c + 1, d - 1))
    /\ NeverExceeds59(SubSeq(str, c + 1, d - 1))
    /\ ~IsDigit(CharAt(str, d + 1))

\* the positions a caller can take for the offending character of a failed
\* parse: the non-':' after the minutes, the seconds digit that passes 59 (or
\* the character after it, where the scan stood), the character after a
\* dangling '.'
OffendingPositions(str) ==
    IF NoColonInput(str) THEN {FirstNonDigit(str)}
    ELSE LET c == FirstNonDigit(str)
         IN  {c + k : k \in {j \in 1..Len(str) : SecondsReach60(str, c, j)
                                 /\ NeverExceeds59(SubSeq(str, c + 1, c + j - 1))}}
             \cup {c + k + 1 : k \in {j \in 1..Len(str) : SecondsReach60(str, c, j)
                                 /\ NeverExceeds59(SubSeq(str, c + 1, c + j - 1))}}
             \cup {d + 1 : d \in {e \in 1..Len(str) : DanglingDotInput(str, c, e)}}

\* C3: on every failing parse the function returns a negative value, sets
\* hvsc_errno to HVSC_ERR_TIMESTAMP and stores in *endptr the position of
\* the offending character.
C3_FailureStoresEndptr ==
    (ts_pc = "done" /\ ts_ret < 0) =>
        /\ hvsc_errno = HVSC_ERR_TIMESTAMP
        /\ endptr_written
        /\ endptr \in OffendingPositions(ts_input)

\* C4: the parse fails with -1 and HVSC_ERR_TIMESTAMP whenever the character
\* after the minutes digit run is not ':', and whenever a '.' after the
\* seconds is followed by no digit.
C4_MissingColonOrDanglingDotFail ==
    (/\ ts_pc = "done"
     /\ \/ NoColonInput(ts_input)
        \/ \E c \in 1..Len(ts_input) : \E d \in 1..Len(ts_input) :
              DanglingDotInput(ts_input, c, d))
    => (ts_ret = -1 /\ hvsc_errno = HVSC_ERR_TIMESTAMP)

\* a failed parse of minutes, ':', seconds and a '.' that ends the string
C4_Witness ==
    /\ ts_pc = "done"
    /\ \E c \in 2..Len(ts_input) :
          /\ DanglingDotInput(ts_input, c, Len(ts_input))
          /\ Len(ts_input) > c + 1
    /\ ts_ret = -1
    /\ errno_before # HVSC_ERR_TIMESTAMP
    /\ hvsc_errno = HVSC_ERR_TIMESTAMP

(***************************************************************************)
(* The lines of a file, read off its bytes (not off the reader's loop).    *)
(***************************************************************************)
LFPositions(f) == {p \in 1..Len(f) : f[p] = LF}

\* the number of '\n'-terminated lines
NumLines(f) == Cardinality(LFPositions(f))

\* the position of the k-th '\n'
KthLF(f, k) ==
    CHOOSE p \in LFPositions(f) :
        Cardinality({q \in LFPositions(f) : q < p}) = k - 1

LineStart(f, k) == IF k = 1 THEN 1 ELSE KthLF(f, k - 1) + 1

\* the k-th terminated line without its '\n'
RawLine(f, k) == SubSeq(f, LineStart(f, k), KthLF(f, k) - 1)

\* l without one '\r' at its end
StripCR(l) ==
    IF Len(l) > 0 /\ l[Len(l)] = CR THEN SubSeq(l, 1, Len(l) - 1) ELSE l

\* what follows the last '\n': the unterminated last line, possibly empty
PartialLine(f) == SubSeq(f, LineStart(f, NumLines(f) + 1), Len(f))

Terminated(f) == f = <<>> \/ f[Len(f)] = LF

\* the handle holds nothing to release
HandleClosed(h) ==
    h.fp = NULL /\ h.path = NULL /\ h.buffer = NULL /\ h.prevbuf = NULL

\* C5: for a file of '\n'-terminated lines the k-th read returns the k-th
\* line without its '\n' and without one '\r' before it, lineno is k after
\* the call, and the reads after the last line return NULL.
C5_TerminatedLinesInOrder ==
    (tf_op = "read" /\ faultAt = 0 /\ Terminated(file)) =>
        IF tf_reads <= NumLines(file)
        THEN /\ tf_ok
             /\ tf_line = StripCR(RawLine(file, tf_reads))
             /\ handle.lineno = tf_reads
        ELSE ~tf_ok

\* the second read of a file of two lines, the first one ending in "\r\n"
C5_Witness ==
    /\ tf_op = "read"
    /\ faultAt = 0
    /\ Terminated(file)
    /\ NumLines(file) = 2
    /\ tf_reads = 2
    /\ Len(RawLine(file, 1)) > 1
    /\ RawLine(file, 1)[Len(RawLine(file, 1))] = CR
    /\ tf_ok
    /\ tf_line = RawLine(file, 2)
    /\ tf_line # <<>>
    /\ handle.lineno = 2

\* C6: when the file ends in a non-empty line without '\n', the read after
\* the terminated lines returns that line and leaves lineno alone, and the
\* reads after it return NULL and leave hvsc_errno alone.
C6_PartialLastLineOnce ==
    (tf_op = "read" /\ faultAt = 0 /\ ~Terminated(file)) =>
        /\ tf_reads = NumLines(file) + 1 =>
              /\ tf_ok
              /\ tf_line = PartialLine(file)
              /\ handle.lineno = NumLines(file)
        /\ tf_reads > NumLines(file) + 1 =>
              /\ ~tf_ok
              /\ handle.lineno = NumLines(file)
              /\ hvsc_errno = errno_before

\* the read after the partial last line of a file that has a full line too
C6_Witness ==
    /\ tf_op = "read"
    /\ faultAt = 0
    /\ ~Terminated(file)
    /\ NumLines(file) >= 1
    /\ tf_reads = NumLines(file) + 2
    /\ ~tf_ok
    /\ handle.lineno = NumLines(file)
    /\ hvsc_errno = errno_before

\* C7: a line of any length, at and above the initial capacity and across
\* several doublings, is returned whole and byte for byte up to its
\* terminator: no read cuts a line short or loses a byte where the buffers
\* grow.
C7_LongLinesComplete ==
    (tf_op = "read" /\ faultAt = 0) =>
        /\ tf_reads <= NumLines(file) =>
              tf_ok /\ tf_line = StripCR(RawLine(file, tf_reads))
        /\ (tf_reads = NumLines(file) + 1 /\ ~Terminated(file)) =>
              tf_ok /\ tf_line = PartialLine(file)
        /\ tf_ok => stream.pos = (IF tf_reads <= NumLines(file)
                                  THEN KthLF(file, tf_reads) ELSE Len(file))

\* a returned line longer than the initial capacity, the buffers doubled twice
C7_Witness ==
    /\ tf_op = "read"
    /\ faultAt = 0
    /\ tf_ok
    /\ Len(tf_line) > READFILE_LINE_SIZE
    /\ handle.buflen >= 4 * READFILE_LINE_SIZE
    /\ tf_reads <= NumLines(file)
    /\ tf_line = RawLine(file, tf_reads)

\* n is READFILE_LINE_SIZE times a power of two
IsDoubled(n) == \E e \in 0..(MaxFileLen + 1) : n = READFILE_LINE_SIZE * 2^e

\* C8: while the handle is open, the current-line buffer and the
\* previous-line buffer both have the capacity handle->buflen, which is the
\* initial capacity times a power of two and never decreases.
C8_BuffersShareCapacity ==
    /\ [](handle.fp # NULL =>
            /\ Len(heap[handle.buffer]) = handle.buflen
            /\ Len(heap[handle.prevbuf]) = handle.buflen
            /\ IsDoubled(handle.buflen))
    /\ [][(handle.fp # NULL /\ handle'.fp # NULL) =>
            handle'.buflen >= handle.buflen]_vars

\* an open handle whose buffers were doubled twice
C8_Witness ==
    /\ handle.fp # NULL
    /\ tf_op = "read"
    /\ handle.buflen = 4 * READFILE_LINE_SIZE
    /\ Len(heap[handle.buffer]) = 4 * READFILE_LINE_SIZE
    /\ Len(heap[handle.prevbuf]) = 4 * READFILE_LINE_SIZE

\* C9: over any sequence of opens (failed or not), reads and closes, each of
\* path, buffer, prevbuf and the stream is released at most once and only
\* after it was allocated, and a close of a handle that holds nothing
\* releases nothing.
C9_CloseReleasesAtMostOnce ==
    /\ [](\A id \in DOMAIN frees : frees[id] = 1 /\ id < nextId)
    /\ [][(tf_op' = "close" /\ HandleClosed(handle)) => frees' = frees]_vars

\* a close that found the handle already closed, after a close that
\* released the stream, the path and both buffers of a handle that was read
C9_Witness ==
    /\ tf_op = "close"
    /\ ~tf_ok
    /\ HandleClosed(handle)
    /\ handle.lineno > 0
    /\ Cardinality(DOMAIN frees) = 4
    /\ \A id \in DOMAIN frees : frees[id] = 1
    /\ DOMAIN heap = {}

\* C10 as claimed: after hvsc_text_file_close every field of the handle has
\* the value hvsc_text_file_init_handle gives it.
C10_CloseResetsEveryField ==
    tf_op = "close" => handle = InitHandle(handle)

\* C10 as amended: hvsc_text_file_close sets fp, path, buffer and prevbuf
\* to NULL, the value hvsc_text_file_init_handle gives them, and leaves
\* lineno, linelen and buflen as they were before the call.
C10_CloseClearsPointersOnly ==
    [][tf_op' = "close" =>
          handle' = [handle EXCEPT !.fp = NULL, !.path = NULL,
                                   !.buffer = NULL, !.prevbuf = NULL]]_vars

\* a closed handle that still holds the line count and the grown capacity
C10_Witness ==
    /\ tf_op = "close"
    /\ tf_ok
    /\ HandleClosed(handle)
    /\ handle.lineno > 0
    /\ handle.linelen > 0
    /\ handle.buflen > READFILE_LINE_SIZE

\* C11: on every read after the first of an open handle, the previous-line
\* buffer read as a C string is the line the read before it returned, also
\* when this read doubles the buffers.
C11_PrevbufHoldsPreviousLine ==
    [][(tf_op = "read" /\ tf_ok /\ tf_op' = "read") =>
          CString(heap'[handle'.prevbuf]) = tf_line]_vars

\* the second read, which doubled the buffers for a line longer than the
\* first: the previous-line buffer still reads as the first line
C11_Witness ==
    /\ tf_op = "read"
    /\ faultAt = 0
    /\ tf_reads = 2
    /\ NumLines(file) >= 1
    /\ Len(RawLine(file, 1)) = 1
    /\ CString(heap[handle.prevbuf]) = RawLine(file, 1)
    /\ tf_ok
    /\ Len(tf_line) > READFILE_LINE_SIZE
    /\ handle.buflen = 4 * READFILE_LINE_SIZE

\* the last read ended on the byte the device fails to deliver
StreamError == faultAt = stream.pos + 1

\* C12 as claimed: whenever a read returns NULL, hvsc_errno is HVSC_ERR_IO
\* if and only if a stream error caused the NULL.
C12_ErrnoTellsErrorFromEOF ==
    (tf_op = "read" /\ ~tf_ok) => (hvsc_errno = HVSC_ERR_IO <=> StreamError)

\* C12 as amended: a read that returns NULL on a stream error leaves
\* HVSC_ERR_IO in hvsc_errno, and one that returns NULL on a clean end of
\* file leaves hvsc_errno as it found it (HVSC_ERR_IO included).
C12_ErrnoSetOnErrorKeptOnEOF ==
    (tf_op = "read" /\ ~tf_ok) =>
        /\ StreamError => hvsc_errno = HVSC_ERR_IO
        /\ ~StreamError => (stream.eof /\ hvsc_errno = errno_before)

\* a read that returned NULL on a stream error after a line was read, the
\* error slot holding no error before
C12_Witness ==
    /\ tf_op = "read"
    /\ ~tf_ok
    /\ StreamError
    /\ tf_reads >= 2
    /\ handle.lineno >= 1
    /\ errno_before = HVSC_ERR_OK
    /\ hvsc_errno = HVSC_ERR_IO

\* C13: for a file that opens and reads without error, of any length, zero
\* and the exact multiples of READFILE_BLOCK_SIZE included, hvsc_read_file
\* returns the length and leaves in *dest a non-NULL live buffer whose first
\* bytes are the bytes of the file.
C13_ReadFileReturnsWholeFile ==
    (rf_pc = "done" /\ rf_fd # "none" /\ rf_faultAt = 0) =>
        /\ rf_ret = Len(rf_file)
        /\ rf_dest # NULL
        /\ rf_dest \in DOMAIN rf_heap
        /\ Len(rf_heap[rf_dest]) >= Len(rf_file)
        /\ SubSeq(rf_heap[rf_dest], 1, Len(rf_file)) = rf_file

\* a file of exactly two chunks was read whole
C13_Witness ==
    /\ rf_pc = "done"
    /\ rf_fd = "closed"
    /\ rf_faultAt = 0
    /\ Len(rf_file) = 2 * READFILE_BLOCK_SIZE
    /\ rf_ret = Len(rf_file)
    /\ rf_dest \in DOMAIN rf_heap
    /\ SubSeq(rf_heap[rf_dest], 1, Len(rf_file)) = rf_file

\* C14: when a read of hvsc_read_file stops on a stream error, at whatever
\* chunk and after however many doublings, the call returns -1, hvsc_errno is
\* HVSC_ERR_IO, the whole buffer is released, the file is closed and *dest is
\* NULL.
C14_ReadErrorReleasesAll ==
    (rf_pc = "done" /\ rf_fd # "none" /\ rf_faultAt # 0) =>
        /\ rf_ret = -1
        /\ hvsc_errno = HVSC_ERR_IO
        /\ rf_heap = <<>>
        /\ rf_frees = 1
        /\ rf_fd = "closed"
        /\ rf_dest = NULL

\* the read failed in the third chunk, the buffer having doubled twice
C14_Witness ==
    /\ rf_pc = "done"
    /\ rf_fd = "closed"
    /\ rf_faultAt > 2 * READFILE_BLOCK_SIZE
    /\ errno_before # HVSC_ERR_IO
    /\ rf_ret = -1
    /\ hvsc_errno = HVSC_ERR_IO
    /\ rf_heap = <<>>
    /\ rf_dest = NULL

\* the blocks the four globals point at
PathBlocks ==
    {hvsc_root_path, hvsc_sldb_path, hvsc_stil_path, hvsc_bugs_path} \ {NULL}

\* C15: hvsc_set_paths releases the strings stored before it stores new
\* ones, so after any sequence of hvsc_set_paths and hvsc_free_paths calls
\* every allocated path string is one the four globals point at.
C15_NoPathStringLeaks ==
    p_op \in {"init", "set", "free"} => DOMAIN p_heap \subseteq PathBlocks

\* the four globals are all set or all NULL
AllPathsSet ==
    /\ hvsc_root_path # NULL
    /\ hvsc_sldb_path # NULL
    /\ hvsc_stil_path # NULL
    /\ hvsc_bugs_path # NULL

NoPathSet ==
    /\ hvsc_root_path = NULL
    /\ hvsc_sldb_path = NULL
    /\ hvsc_stil_path = NULL
    /\ hvsc_bugs_path = NULL

\* C16: in the initial state and after every hvsc_set_paths and
\* hvsc_free_paths call the four path globals are all NULL or all set, and
\* when set the three derived paths are the stored root, a separator and
\* the file name each stands for.
C16_PathsAllOrNone ==
    /\ AllPathsSet \/ NoPathSet
    /\ AllPathsSet =>
         /\ PathBlocks \subseteq DOMAIN p_heap
         /\ p_heap[hvsc_sldb_path] =
              p_heap[hvsc_root_path] \o <<PathSeparator>> \o HVSC_SLDB_FILE
         /\ p_heap[hvsc_stil_path] =
              p_heap[hvsc_root_path] \o <<PathSeparator>> \o HVSC_STIL_FILE
         /\ p_heap[hvsc_bugs_path] =
              p_heap[hvsc_root_path] \o <<PathSeparator>> \o HVSC_BUGS_FILE

\* the paths were set, released and set again to another root
C16_Witness ==
    /\ p_op = "set"
    /\ p_sets = 2
    /\ AllPathsSet
    /\ p_heap[hvsc_root_path] = p_arg
    /\ Len(p_arg) = MaxRootLen
    /\ DOMAIN p_heap = PathBlocks
    /\ p_heap[hvsc_bugs_path] = p_arg \o <<PathSeparator>> \o HVSC_BUGS_FILE

\* the root is configured and not empty, and s is longer than the root and
\* begins with it
BeginsWithRoot(s) ==
    /\ hvsc_root_path # NULL
    /\ LET root == p_heap[hvsc_root_path]
       IN  /\ Len(s) > Len(root)
           /\ SubSeq(s, 1, Len(root)) = root

NonEmptyRoot == hvsc_root_path # NULL /\ p_heap[hvsc_root_path] # <<>>

\* C17: hvsc_path_strip_root returns a fresh string, which is the path
\* without its first len(root) bytes exactly when a non-empty root is
\* configured, the path is longer than the root and begins with it, and a
\* copy of the path otherwise; the caller's string is left as it was.
C17_StripRootResult ==
    p_op = "strip" =>
        /\ p_res # NULL
        /\ p_res \in DOMAIN p_heap
        /\ p_res \notin PathBlocks
        /\ p_heap[p_res] =
             IF NonEmptyRoot /\ BeginsWithRoot(p_arg)
             THEN SubSeq(p_arg, Len(p_heap[hvsc_root_path]) + 1, Len(p_arg))
             ELSE p_arg
        /\ p_in = p_arg

\* a path under the root was stripped to what follows the root
C17_Witness ==
    /\ p_op = "strip"
    /\ NonEmptyRoot
    /\ BeginsWithRoot(p_arg)
    /\ p_heap[p_res] # <<>>
    /\ p_heap[hvsc_root_path] \o p_heap[p_res] = p_arg

\* C18: hvsc_path_is_hvsc returns true exactly when a root is configured
\* and the path is longer than the root and begins with it; so it returns
\* false for the root itself and when no root is configured.
C18_IsHvscIffUnderRoot ==
    p_op = "is" =>
        /\ p_bool <=> BeginsWithRoot(p_arg)
        /\ hvsc_root_path = NULL => ~p_bool
        /\ (hvsc_root_path # NULL /\ p_arg = p_heap[hvsc_root_path]) => ~p_bool

\* a path under a non-empty root was found to be in the HVSC
C18_Witness ==
    /\ p_op = "is"
    /\ p_bool
    /\ NonEmptyRoot
    /\ Len(p_arg) > Len(p_heap[hvsc_root_path])
    /\ SubSeq(p_arg, 1, Len(p_heap[hvsc_root_path])) = p_heap[hvsc_root_path]

\* x does not itself begin with the root
Relative(x) ==
    /\ x # <<>>
    /\ x[1] # PathSeparator
    /\ ~(NonEmptyRoot /\ BeginsWithRoot(x))

\* C19 as claimed: with a root configured, joining the root to what
\* stripping the root from join(root, x) leaves gives join(root, x) again,
\* for every relative x that does not begin with the root.
C19_JoinStripJoinIsJoin ==
    (p_op = "trip" /\ Relative(p_arg)) => p_trip.second = p_trip.first

\* C19 as amended: with a root configured, stripping the root from
\* join(root, x) leaves the separator followed by x, so the root followed by
\* it, with nothing put between, is join(root, x), and joining it to the root
\* gives the root, two separators and x.
C19_StripKeepsSeparator ==
    p_op = "trip" =>
        LET root == p_heap[hvsc_root_path]
        IN  /\ p_trip.first = root \o <<PathSeparator>> \o p_arg
            /\ p_trip.stripped = <<PathSeparator>> \o p_arg
            /\ root \o p_trip.stripped = p_trip.first
            /\ p_trip.second = root \o <<PathSeparator, PathSeparator>> \o p_arg

\* a relative path was joined to a non-empty root, stripped and joined again
C19_Witness ==
    /\ p_op = "trip"
    /\ NonEmptyRoot
    /\ Relative(p_arg)
    /\ Len(p_arg) >= 2
    /\ p_trip.stripped = <<PathSeparator>> \o p_arg
    /\ p_trip.second # p_trip.first

\* the first 8 bytes of the line are the bytes of the identifier
BeginsWithTag(line, tag) ==
    Len(line) >= Len(tag) /\ SubSeq(line, 1, Len(tag)) = tag

\* the value hvsc_get_field_type returns for the identifier
FieldOf(tag) ==
    (CHOOSE i \in 1..Len(field_identifiers) : field_identifiers[i] = tag) - 1

TitleTag == <<" ", " ", "T", "I", "T", "L", "E", ":">>

NoTagBegins(line) ==
    \A i \in 1..Len(field_identifiers) :
        ~BeginsWithTag(line, field_identifiers[i])

\* C20 as claimed: the line of three blanks and "TITLE:Some Song" is
\* classified as TITLE, and every line whose first 8 bytes are none of the
\* identifiers gets HVSC_FIELD_INVALID.
C20_ThreeBlankTitleIsTitle ==
    ft_pc = "done" =>
        /\ ft_line = <<" ">> \o TitleLine => ft_ret = FieldOf(TitleTag)
        /\ NoTagBegins(ft_line) => ft_ret = HVSC_FIELD_INVALID

\* C20 as amended: the line of two blanks and "TITLE:Some Song" is
\* classified as TITLE, the line with three blanks in front is not, and
\* every line whose first 8 bytes are none of the identifiers gets
\* HVSC_FIELD_INVALID.
C20_TwoBlankTitleIsTitle ==
    ft_pc = "done" =>
        /\ ft_line = TitleLine => ft_ret = FieldOf(TitleTag)
        /\ ft_line = <<" ">> \o TitleLine => ft_ret = HVSC_FIELD_INVALID
        /\ NoTagBegins(ft_line) => ft_ret = HVSC_FIELD_INVALID

\* the line with two blanks in front was classified as TITLE
C20_Witness ==
    /\ ft_pc = "done"
    /\ ft_line = TitleLine
    /\ ft_ret = FieldOf(TitleTag)
    /\ ft_ret # HVSC_FIELD_INVALID

\* the characters 0-9a-f
HexChars == {HexDigits[k] : k \in 1..Len(HexDigits)}

\* the number a hex digit stands for
HexValue(c) == (CHOOSE k \in 1..Len(HexDigits) : HexDigits[k] = c) - 1

\* C22: when the file cannot be opened hvsc_md5_digest returns false,
\* hvsc_errno is HVSC_ERR_IO and the caller's buffer is as it was; when it
\* succeeds the buffer holds two characters of 0-9a-f for each byte of the
\* hash, high nibble first, 32 in all, and a NUL after them.
C22_DigestIsHexOrUntouched ==
    md_pc = "done" =>
        IF md_fp = "none"
        THEN /\ md_ret = FALSE
             /\ hvsc_errno = HVSC_ERR_IO
             /\ md_digest = DigestBuffer
        ELSE /\ md_ret = TRUE
             /\ \A k \in 1..(2 * HVSC_DIGEST_SIZE) : md_digest[k] \in HexChars
             /\ \A i \in 1..HVSC_DIGEST_SIZE :
                    16 * HexValue(md_digest[2 * i - 1])
                      + HexValue(md_digest[2 * i]) = md_hash[i]
             /\ md_digest[2 * HVSC_DIGEST_SIZE + 1] = NUL
             /\ md_digest[2 * HVSC_DIGEST_SIZE + 2] = Indet

\* the digest of a hash whose first byte is 0x0a and whose second is 0x1b
C22_Witness ==
    /\ md_pc = "done"
    /\ md_ret = TRUE
    /\ md_hash[1] = 10
    /\ md_digest[1] = "0"
    /\ md_digest[2] = "a"
    /\ md_digest[3] = "1"
    /\ md_digest[4] = "b"
    /\ md_digest[2 * HVSC_DIGEST_SIZE + 1] = NUL

\* the step is a call of hvsc_parse_simple_timestamp, hvsc_text_file_open,
\* hvsc_text_file_read, hvsc_read_file or hvsc_md5_digest that fails
TimestampFails == ts_pc = "call" /\ ts_pc' = "done" /\ ts_ret' = -1
OpenFails == tf_opens' = tf_opens + 1 /\ ~tf_ok'
ReadFails == tf_reads' = tf_reads + 1 /\ ~tf_ok' /\ StreamError'
ReadFileFails == rf_pc = "call" /\ rf_pc' = "done" /\ rf_ret' = -1
Md5Fails == md_pc = "call" /\ md_pc' = "done" /\ ~md_ret'

\* C21: over any sequence of operations hvsc_errno changes only in an
\* operation that fails, and then holds that operation's error code; every
\* operation that succeeds leaves it as it was, so the code of an earlier
\* failure is still there after later successes.
C21_ErrnoChangesOnlyOnFailure ==
    [][IF TimestampFails THEN hvsc_errno' = HVSC_ERR_TIMESTAMP
       ELSE IF OpenFails \/ ReadFails \/ ReadFileFails \/ Md5Fails
            THEN hvsc_errno' = HVSC_ERR_IO
            ELSE hvsc_errno' = hvsc_errno]_vars

\* the timestamp failed, and the code it left is still there after a file
\* was read whole, a line was read and a digest was made, the last call
\* having found that code
C21_Witness ==
    /\ ts_pc = "done"
    /\ ts_ret = -1
    /\ rf_pc = "done"
    /\ rf_ret >= 0
    /\ tf_op = "read"
    /\ tf_ok
    /\ md_pc = "done"
    /\ md_ret
    /\ ft_pc = "done"
    /\ errno_before = HVSC_ERR_TIMESTAMP
    /\ hvsc_errno = HVSC_ERR_TIMESTAMP

\* the first 8 bytes of the line, or the whole line when it is shorter
FirstBytes(line) ==
    SubSeq(line, 1, IF Len(line) < FIELD_ID_LEN THEN Len(line) ELSE FIELD_ID_LEN)

\* the table entries (counted from 0) the line begins with
MatchingFields(line) ==
    {i \in 0..(Len(field_identifiers) - 1) :
        BeginsWithTag(line, field_identifiers[i + 1])}

\* C23: hvsc_get_field_type(s) returns i (0 ARTIST, 1 AUTHOR, 2 BUG,
\* 3 COMMENT, 4 NAME, 5 TITLE) if and only if the first 8 bytes of s are the
\* i-th identifier; the result is that of the first 8 bytes alone, at most
\* one identifier matches, and a line shorter than 8 bytes gets
\* HVSC_FIELD_INVALID.
C23_FieldTypeIffTagMatches ==
    ft_pc = "done" =>
        /\ \A i \in 0..(Len(field_identifiers) - 1) :
               ft_ret = i <=> i \in MatchingFields(ft_line)
        /\ ft_ret = HVSC_FIELD_INVALID <=> MatchingFields(ft_line) = {}
        /\ Cardinality(MatchingFields(ft_line)) <= 1
        /\ MatchingFields(ft_line) = MatchingFields(FirstBytes(ft_line))
        /\ ft_ret = hvsc_get_field_type(FirstBytes(ft_line))
        /\ Len(ft_line) < FIELD_ID_LEN => ft_ret = HVSC_FIELD_INVALID

\* a line of COMMENT: and some text was classified as entry 3
C23_Witness ==
    /\ ft_pc = "done"
    /\ Len(ft_line) > FIELD_ID_LEN
    /\ SubSeq(ft_line, 1, FIELD_ID_LEN) = <<"C", "O", "M", "M", "E", "N", "T", ":">>
    /\ ft_ret = 3

\* the parser cannot take the character at e after the timestamp that ends
\* before e: a timestamp without fraction is not followed by a digit or a
\* '.', one with a fraction of less than 3 digits is not followed by a digit
NothingMoreToTake(str, e, d) ==
    IF d = 0 THEN CharAt(str, e) \notin Digits \cup {"."}
    ELSE e - d - 1 = 3 \/ CharAt(str, e) \notin Digits

\* str has, after its ':' at c and its '.' at d, four digits or more
FourFractionDigits(str, c, d) ==
    /\ ColonEndsMinutes(str, c)
    /\ d \in (c + 1)..(Len(str) - 4)
    /\ str[d] = "."
    /\ AllDigits(SecondsOf(str, c, d))
    /\ NeverExceeds59(SecondsOf(str, c, d))
    /\ AllDigits(SubSeq(str, d + 1, d + 4))

\* C24: on every successful parse *endptr is stored and points just past
\* the last character consumed, the characters before it being a timestamp
\* whose value is returned; at most three fraction digits are consumed: with
\* four or more the parse succeeds on the first three and *endptr points at
\* the fourth.
C24_EndptrPastConsumed ==
    (ts_pc = "done" /\ ts_ret # -1) =>
        /\ endptr_written
        /\ endptr \in 2..(Len(ts_input) + 1)
        /\ \E c \in 1..Len(ts_input) : \E d \in 0..Len(ts_input) :
              /\ ValidTimestamp(SubSeq(ts_input, 1, endptr - 1), c, d)
              /\ NothingMoreToTake(ts_input, endptr, d)
              /\ ts_ret = MillisecondsOf(SubSeq(ts_input, 1, endptr - 1), c, d)
        /\ \A c \in 1..Len(ts_input) : \A d \in 1..Len(ts_input) :
              FourFractionDigits(ts_input, c, d) =>
                  /\ endptr = d + 4
                  /\ ts_ret = MillisecondsOf(SubSeq(ts_input, 1, d + 3), c, d)

\* a timestamp with a fraction of four digits was parsed on its first three
C24_Witness ==
    /\ ts_pc = "done"
    /\ ts_ret # -1
    /\ \E c \in 1..Len(ts_input) : \E d \in 1..Len(ts_input) :
          /\ FourFractionDigits(ts_input, c, d)
          /\ endptr = d + 4
          /\ IsDigit(CharAt(ts_input, endptr))
          /\ DecVal(SubSeq(ts_input, d + 1, d + 3)) > 0
          /\ ts_ret = MillisecondsOf(SubSeq(ts_input, 1, d + 3), c, d)

\* C25: in hvsc_text_file_read every store into the line buffer, of a
\* character or of the terminating NUL, is at an index below handle->buflen,
\* which is the size of the buffer, for every line and every sequence of
\* reads of an open handle.
C25_LineStoresInBounds ==
    /\ ~tf_oob
    /\ handle.buffer # NULL =>
         /\ Len(heap[handle.buffer]) = handle.buflen
         /\ handle.linelen < handle.buflen

\* a line longer than the first capacity was stored and terminated within
\* the buffer
C25_Witness ==
    /\ tf_op = "read"
    /\ tf_ok
    /\ Len(tf_line) > READFILE_LINE_SIZE
    /\ handle.linelen = Len(tf_line)
    /\ handle.buflen > Len(tf_line)
    /\ Load(heap[handle.buffer], Len(tf_line)) = NUL
    /\ ~tf_oob

\* C26: in hvsc_read_file, at every fread the offset plus the chunk size is
\* at most the size of the buffer, for every file length, so that no fread
\* can store past the end of the buffer; so it is at the last fread, whose
\* offset is the length returned less the bytes of the short read.
C26_ChunkFitsBuffer ==
    /\ ~rf_oob
    /\ (rf_pc = "done" /\ rf_dest \in DOMAIN rf_heap) =>
         (rf_ret - (rf_ret % READFILE_BLOCK_SIZE)) + READFILE_BLOCK_SIZE
            <= Len(rf_heap[rf_dest])

\* a file of more than two chunks was read, the buffer having doubled twice
C26_Witness ==
    /\ rf_pc = "done"
    /\ ~rf_oob
    /\ rf_dest \in DOMAIN rf_heap
    /\ rf_ret = Len(rf_file)
    /\ rf_ret >= 2 * READFILE_BLOCK_SIZE
    /\ Len(rf_heap[rf_dest]) = 4 * READFILE_BLOCK_SIZE

\* the nodes export_query_list yields, from item on
RECURSIVE WalkFrom(_, _, _)
WalkFrom(nodes, item, fuel) ==
    IF item = NULL \/ fuel = 0 \/ item \notin DOMAIN nodes THEN <<>>
    ELSE <<item>> \o WalkFrom(nodes, export_query_list(nodes, item), fuel - 1)

ExportWalk(nodes) ==
    WalkFrom(nodes, export_query_list(nodes, NULL), Cardinality(DOMAIN nodes))

\* the devices of the walk, in its order
ExportDevices(nodes) ==
    [k \in 1..Len(ExportWalk(nodes)) |-> nodes[ExportWalk(nodes)[k]].device]

\* the abstract list: remove deletes the earliest entry of the device
EarliestOf(l, d) == CHOOSE k \in 1..Len(l) : l[k] = d /\ \A j \in 1..(k - 1) : l[j] # d

WithoutEarliest(l, d) ==
    [k \in 1..(Len(l) - 1) |-> IF k < EarliestOf(l, d) THEN l[k] ELSE l[k + 1]]

Occurs(l, d) == \E k \in 1..Len(l) : l[k] = d

\* every node of the walk is the next of its previous, and the walk visits
\* every allocated node
WellLinked(nodes) ==
    /\ \A k \in 1..Len(ExportWalk(nodes)) :
          LET n == ExportWalk(nodes)[k]
          IN  /\ nodes[n].previous \in DOMAIN nodes
              /\ nodes[nodes[n].previous].next = n
    /\ Len(ExportWalk(nodes)) = Cardinality(DOMAIN nodes) - 1

\* C27: after any sequence of export_add and export_remove calls the walk
\* with export_query_list yields the abstract list, in which add appends the
\* device and returns 0 and remove deletes the earliest entry of the device
\* and returns 0, or changes nothing and returns -1 when the device is not
\* in it; and every node n of the list has n->previous->next == n.
C27_ExportListRefinesSequence ==
    /\ [](WellLinked(ex_nodes) /\ (ex_op = "init" => ExportDevices(ex_nodes) = <<>>))
    /\ [][/\ ex_op' = "add" =>
               /\ ExportDevices(ex_nodes') = Append(ExportDevices(ex_nodes), ex_arg')
               /\ ex_ret' = 0
          /\ ex_op' = "remove" =>
               IF Occurs(ExportDevices(ex_nodes), ex_arg')
               THEN /\ ExportDevices(ex_nodes') =
                         WithoutEarliest(ExportDevices(ex_nodes), ex_arg')
                    /\ ex_ret' = 0
               ELSE /\ ExportDevices(ex_nodes') = ExportDevices(ex_nodes)
                    /\ ex_ret' = -1]_vars

\* a device registered twice was removed once, from the middle of the list:
\* its later entry is still there
C27_Witness ==
    /\ ex_op = "remove"
    /\ ex_ret = 0
    /\ Len(ExportDevices(ex_nodes)) = 2
    /\ ExportDevices(ex_nodes)[1] # ex_arg
    /\ ExportDevices(ex_nodes)[2] = ex_arg
    /\ ExportWalk(ex_nodes)[2] > ExportWalk(ex_nodes)[1] + 1
    /\ WellLinked(ex_nodes)

\* C28: with tune_count >= 1, after psid_subtune_next_action or
\* psid_subtune_previous_action 1 <= tune_current <= tune_count whatever
\* tune_current was before the call; next from tune_count gives 1 and
\* previous from 1 gives tune_count.
C28_SubtuneStaysInRange ==
    (vs_op \in {"next", "previous"} /\ vs_tune_count >= 1) =>
        /\ 1 <= vs_tune_current
        /\ vs_tune_current <= vs_tune_count
        /\ (vs_op = "next" /\ vs_before = vs_tune_count) => vs_tune_current = 1
        /\ (vs_op = "previous" /\ vs_before = 1) =>
               vs_tune_current = vs_tune_count

\* how many times the lock is held before step i of a trace
RECURSIVE Held(_, _)
Held(trace, i) ==
    IF i <= 1 THEN 0
    ELSE Held(trace, i - 1)
         + (IF trace[i - 1] = "lock" THEN 1
            ELSE IF trace[i - 1] = "unlock" THEN -1 ELSE 0)

\* C29: in every VSID action handler each read or write of a vsid_state_t
\* field happens while the lock is held, between vsid_state_lock() and its
\* vsid_state_unlock(), and every acquisition of the lock is released
\* exactly once on the path taken: the lock is free when it is taken, held
\* when it is released, and free when the handler returns.
C29_FieldsTouchedUnderLock ==
    /\ \A i \in 1..Len(vs_trace) :
          IF vs_trace[i] = "lock" THEN Held(vs_trace, i) = 0
          ELSE Held(vs_trace, i) = 1
    /\ Held(vs_trace, Len(vs_trace) + 1) = 0

\* C30: when set_delayloop_emulation is called and
\* video_color_update_palette() fails, the setter returns -1 and
\* video_resources.delayloop_emulation holds the value it had before the
\* call; when the update succeeds the setter returns 0 and the field holds
\* the new value.
C30_DelayloopRolledBackOnFailure ==
    [][(vr_op' = "delayloop") =>
          IF vr_result' < 0
          THEN /\ vr_ret' = -1
               /\ vr_delayloop_emulation' = vr_delayloop_emulation
          ELSE /\ vr_ret' = 0
               /\ vr_delayloop_emulation' = vr_arg']_vars

\* a failed update rolled the field back from a different new value, which
\* the update had seen
C30_Witness ==
    /\ vr_op = "delayloop"
    /\ vr_result < 0
    /\ vr_ret = -1
    /\ vr_arg # vr_old
    /\ vr_seen = vr_arg
    /\ vr_delayloop_emulation = vr_old
    /\ vr_old # 0

====
